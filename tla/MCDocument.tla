------------------------------ MODULE MCDocument ------------------------------
(* Papers for Document: chunks of twelve characters. *)
EXTENDS Document

S(m) == [len |-> m, ref |-> 0]

Kid(tag, texts, label) == [tag |-> tag, texts |-> texts, label |-> label, div |-> 0]

P(text) == Kid("p", <<text>>, 0)

Kids ==
    {P(<<S(4)>>), P(<<S(5), [len |-> 4, ref |-> 3]>>), P(<<S(6), S(14), S(3)>>),
     P(<<S(14), S(2), S(1)>>), Kid("table", <<<<S(9)>>>>, 0), Kid("formula", <<<<>>, <<>>>>, 2),
     Kid("formula", <<<<S(2)>>, <<S(1)>>, <<S(3)>>>>, 0), Kid("list", <<<<S(3)>>, <<>>, <<S(6)>>>>, 0)}

OtherKids ==
    {Kid("formula", <<<<S(2)>>, <<>>>>, 0), Kid("formula", <<<<>>, <<S(1), S(1)>>>>, 0),
     Kid("formula", <<<<S(2)>>, <<>>, <<>>, <<>>>>, 2), Kid("formula", <<<<>>, <<S(1)>>, <<>>>>, 0),
     Kid("formula", <<<<S(2)>>, <<>>, <<>>, <<>>>>, 0), Kid("figure", <<<<S(2)>>, <<S(3)>>>>, 0), Kid("note", <<<<S(7), S(5)>>>>, 0),
     Kid("footnote", <<<<S(3)>>>>, 0), Kid("bibl", <<<<S(9), S(9)>>>>, 0),
     Kid("other", <<<<>>>>, 0)}

Heads == {<<>>, <<S(2)>>, <<S(11)>>}

Div(head, isRef, kids) == [head |-> head, isRef |-> isRef, kids |-> kids]

Upto(n, K) == UNION {[1..m -> K] : m \in 0..n}

OneDiv == {<<Div(h, FALSE, ks)>> : h \in Heads, ks \in Upto(3, Kids)}

TwoDivs ==
    {<<Div(h, FALSE, ks), Div(g, r, js)>> :
        h \in Heads, ks \in Upto(1, Kids), g \in Heads, r \in BOOLEAN, js \in Upto(2, OtherKids \cup {P(<<S(4)>>)})}

(* A div inside the first, which is read twice.                            *)
Nested ==
    {<<Div(h, FALSE, <<k, [Kid("div", <<>>, 0) EXCEPT !.div = 2]>>), Div(g, FALSE, <<j>>)>> :
        h \in Heads, k \in Kids, g \in Heads, j \in Kids}

MCBodies == OneDiv \cup TwoDivs \cup Nested

===============================================================================
