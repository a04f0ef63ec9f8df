# TalkToPDF: specifications, model checking and proofs

TalkToPDF is a FastAPI backend that stores a user's PDF, indexes it in a worker
process (PDF -> TEI XML -> blocks -> chunks -> embeddings in PostgreSQL with
pgvector), and answers questions about it in chats, streaming the answer of a
language model over retrieved chunks. This directory holds TLA+ modules written
from its source, the TLC runs that check them and the proofs tlapm checks.

Paths below are relative to `src/src/talk_to_pdf/backend/app/`, those that begin
with `streamlit_app/` to `src/src/talk_to_pdf/frontend/`.

## 1. The system

| Component | State | Operations | Interacts with |
|---|---|---|---|
| Indexing use cases (`application/indexing`) | `document_indexes` row: status, progress, cancel flag | start, cancel, two queries | projects (authorisation), runner, worker through the row |
| Runner (`infrastructure/indexing/runner_spawn.py`) | `_active`: a `Process` per job, in memory | enqueue, prune, (is_running, stop: unused) | spawns one process per index |
| Worker (`infrastructure/indexing/service.py`) | local memory; rows of index, chunks, embeddings | the pipeline of `run`, `_cancel`, `mark_failed` | file storage, GROBID, embedding service, database |
| Extractor (`grobid_tei_block_extractor.py`), chunker (`block_chunker.py`) | local to a call | divs of a TEI body to blocks; splitting, packing into chunks | worker; full-text search reads what the chunker normalised |
| Projects, file storage (`application/projects`, `infrastructure/files`) | `projects` and `project_documents` rows; the PDF's directory | create, delete, rename, get, list | worker reads the PDF, chats cascade |
| Chats and messages (`application/reply`, `infrastructure/reply`) | `chats`, `chat_messages` | create, delete, list, add a message and touch its chat | projects (ON DELETE CASCADE) |
| Streamed reply (`stream_reply.py`) | local to a call | validate, save question, history, context, stream, save answer | index, chat, retrieval, generator |
| Reply generator | `_last_metrics`, one object for all calls | stream, get_last_metrics | language model |
| Retrieval (`build_index_context.py`, rewriter, merger, reranker) | local to a call; citations in `chat_messages` | limits, rewrite, embed, search, merge, load, rerank; citation saved and read back | index, chunks, embeddings, three models |
| Users (`application/users`, `core/security.py`) | `users` row; the token names a user | register, log in, who is this | every other use case, by the owner |
| Streamlit client (`streamlit_app`) | `st.session_state` of a tab: token, user, selected project, run, chat, messages, flags | pages, clicks, redirects, restarts of the script | all of the above, by HTTP |
| HTTP API, React client, configuration | none; the browser's | routes, polling | all of the above |

What is hard here:

* **Transactions are shorter than operations.** A unit of work commits when its
  `async with` ends (`infrastructure/db/uow.py`) at READ COMMITTED. Between the
  read and the write of one transaction, another may commit; between two
  transactions of one operation anything may happen. Nothing is locked.
* **Processes.** The API is one process with an event loop; every indexing job
  is a process of its own that outlives an API restart, knows the API only by
  the row, and is known only by a dictionary in memory.
* **Two stores.** The PDF is on disk, its row in the database.
* **Streaming.** A reply is cancelled at any `await` or `yield` when its client
  goes away; chats and projects are deleted while it runs.
* **Answers of models.** Rewriter and reranker answer lists that may repeat,
  invent or leave out what they were given, late or not at all; several
  searches are normalised, merged and cut before the reranker sees them.
* **Scripts that restart.** A Streamlit page runs from its top after every
  click, a click stops the run that is under way between any two accesses to the
  session state, and the session state outlives pages, projects and users.

Properties that make the components correct: a READY index is complete, a
verdict stands, cancel stops the work and cleans up, a job is lost only by an
error that leaves nobody to report it; no project promises a PDF that is not there, a deleted project leaves none; an
answer is stored in a living chat, after its question, with its own metrics,
citing an index of its project; the context of an answer is of the index asked
for, as full as asked, best first, and its citation names exactly it; every text
of a paper is indexed once but for the overlap, in order, under its own heading;
what a tab shows belongs to the user who is logged in and to the open project, and its
pages do not restart each other for ever.

## 2. Modules

| Module | Models | Kind |
|---|---|---|
| `Indexing` | start, cancel, runner, worker pipeline, project deletion beneath it, API restart | detailed |
| `IndexLifecycle` | what the row promises its observers (UI, start call, retrieval) | abstract, implemented by `Indexing` |
| `IndexingProofs` | inductive invariant, 6 invariants, 3 action properties, 2 of what can no longer happen, refinement | proofs |
| `Projects` | creation and deletion over disk and database, errors, crashes | detailed |
| `ProjectLife` | unborn, live, unlinked, gone | abstract, implemented by `Projects` |
| `ProjectsProofs` | inductive invariant, 4 invariants, refinement | proofs |
| `Reply` | streamed replies, chats, messages, deletions, disconnects | detailed |
| `ReplyProofs` | inductive invariant, 6 invariants | proofs |
| `Merger` | normalisation, scores and ranking of the hits of several queries | operators |
| `MergerProofs` | the scores keep the order of the hits; one ranking, whatever the order of the queries | proofs |
| `Retrieval` | from the question to the context, and from the stored citation back; uses `Merger` | detailed |
| `RetrievalProofs` | inductive invariant, 7 invariants, 1 action property | proofs |
| `Document` | TEI body to blocks to chunks | detailed |
| `DocumentProofs` | the invariant of each phase, 4 invariants, no block is carried over | proofs |
| `FoldProofs` | numbers, induction, folds, flattened and filtered sequences: what the other proofs need of them | lemmas |
| `Client` | a tab of the Streamlit client, accounts and what other clients do | detailed |
| `ClientProofs` | inductive invariant, 2 invariants, 1 action property | proofs |
| `MCIndexing`, `MCReply`, `MCRetrieval`, `MCDocument`, `MCClient` | symmetry sets, papers, tables of scores | instances |

`ProjectLife` is what `Indexing` relies on: its actions `UnlinkDocument` and
`DeleteProjectRow` are the two steps `Projects` is shown to implement, so
the worker's environment there is the one the project component really
provides. `Reply` uses indexes the way `IndexLifecycle` offers them: they
become READY once (`PublishIndex`) and may be reopened by a late cancel
(`ReopenIndex`). `Retrieval` is what a reply does at its place `context`, seen
from inside; its `IndexStep` has the same stages and the content of each
(`CancelledIsClean`, `ReadyIsComplete` of `Indexing`). `Client` takes from
the other modules only what their users can tell apart.

### Indexing

| State | Code |
|---|---|
| `status`, `progress`, `cancelRequested`, `projectOf` | columns of `DocumentIndexModel` |
| `chunks`, `embeds` | numbers of rows of `ChunkModel`, `ChunkEmbeddingModel` |
| `registry` | `_active` |
| `start[s]`, `cancel[c]` | what a use case call holds between its read and its write |
| `wpc[i]`, `drafts`, `done`, `vectors` | program counter and local variables of the worker |
| `project` | PDF and row of a project |

A transaction that reads and later writes is two actions (`StartCheck` /
`StartCreate`, `CancelRead` / `CancelWrite`, each cancel check of the worker and
the write after it). The writes of one transaction are one action: they are
all to rows whose locks are held to the commit. The branch of a cancel check
that finds the flag deletes and reports in the same action as the read; nothing
resets the flag, so the read would give the same answer at the commit.
`WorkerCancel` removes embeddings through the cascade of the foreign key.
`PersistChunks` with no chunk ends the run, as `if not chunks: return`
does. Progress is computed with integer division where the code truncates a
float; both are monotone in `done` and agree on the values of the runs.

Failures, switched by the constant `Faults`: the spawn fails; conversion,
extraction, chunking or the insert raises; the embedding service raises, or
answers too few vectors or one too many; the document is empty; the worker dies
(also: any exception `run` does not catch); the API restarts; a transaction of a
start or cancel call raises; the owner deletes the project.

That a transaction raises is modelled at each of the three that write
(`uow.py` 34-38). `StartCommitFails`: the transaction that creates the row ends the call,
and may have taken effect nevertheless when only the answer to its commit was lost.
`StartReportRaises`: the report of a failed spawn (`start_indexing.py` 74-81)
does not reach the row, which stays PENDING. `CancelRaises`: the cancel did nothing
(one that took effect unnoticed is `CancelWrite`). The transactions of the worker raise under
"pipeline" and "embed" where `run` catches it, and under "die" where it does not.

### Projects

`file[p]` is the PDF's directory (none, empty, with a partial or whole PDF),
`row[p]` the project's row. `save` and `delete` of the storage have no `await`
inside, so other requests do not see their middle, but an exception or a crash
can leave it (`SaveFileFails`, `UnlinkFails`, `CrashInSave`, `CrashInUnlink`).
A failed commit of the insert may or may not have taken effect. A delete call
whose project was deleted by another call finds nothing to unlink and deletes
no row, and succeeds.

### Reply

A call goes through `chat`, `question`, `asking`, `history`, `context`,
`streaming`, `answer`, `saving` to `closed` or `failed`, one action per
transaction or wait. `clock` stands for `utcnow()`, which is read when a message
object is built, one step before it is written. `Save` is insert, touch and
commit; when the chat has been deleted in between the foreign key refuses it.
`Interrupted` is the cancellation of the coroutine by a disconnect, or a database
error. What prompts and answers say is left out.

### Retrieval

| State | Code |
|---|---|
| `stage[i]`, `project` | rows of index, chunks and embeddings; of the project |
| `index`, `topK`, `topN`, `timed` | the request after its limits were applied |
| `queries`, `primary` | the queries searched; the one that is stored as rewritten |
| `hits` | per query, chunk to score, of the vector and the text search |
| `ranked`, `score`, `matchedBy` | `merge_result`, later the chunks loaded and reranked |
| `pack`, `message`, `shown` | `ContextPackDTO`; citations stored; citations as read back |

One call is modelled, because calls write no state they share. Its three
transactions are `Start`, the searches (one action per statement, as READ
COMMITTED lets each see newer rows) and `Load`. The index may be cancelled or
reopened and the project deleted between any two steps. What the rewriter and
the reranker answer and how similar chunks are is chosen from constants. `Merger`
computes in multiples of the constant `Unit` (scores) with the weights of the
code in twentieths; a division truncates where the code has a float.
`ReadMessages` builds a citation as
`GetChatMessages` does: `matchedBy`, the question and the list of queries are
lost, and the list takes the rewritten query's place.

### Document

`body` is a paper: divs in document order, each with a heading, a mark for
reference sections and children; a text is a sequence of sentence lengths.
`BodiesAssumption` says what a parsed body is: a div comes before the divs in it,
and a child has one text (which may be empty) unless it is a div or one of three: a
list has a text for each item, perhaps none; a formula has its own text, its `<label>` and its
other children in this order; a figure has its `figDesc`, or if it has none what it
says, and then the rest.
`ExtractDiv` reads one div, `SplitBlocks` runs the sentence splitter over
all blocks, `TakeHead`, `TakeOversize` and `TakeBlock` are the iterations of the
chunker's loop, `End` its last flush. `buf` holds `buf_blocks`,
`buf_texts_norms` and `buf_len`. The model keeps what the code does where it is not what
one would expect:

* Only headings (`block_chunker.py` 417) and oversize blocks (428) are
  normalised, and the list is not reset at 448.
* As `zip` at 283 pairs three lists and the third is that one, no block is ever
  carried over; the overlap the class promises at line 21 does not happen
  (`document_overlap`). For any paper and any limits this is the theorem
  `OverlapNeverHappens`. The rest of the overlap is modelled all the same (`Carry`, `Drop`):
  the chunker with a third list kept as long as the first two satisfies every
  property here, `OverlapIsCarried` too.
* With `MaxChars` 1 a piece of a cut text may be the one space between two sentences. It
  renders to nothing and the loop passes over it (408-410), so `Pieces` leaves it out, and
  `EveryTextIsIndexed` allows such a space to be missing from the chunks.
* The splitter promises pieces within the limit (93); a sentence longer than that
  which is pending behind another comes out whole. `ChunksFit` says which.
* The text of a `<ref>` is read twice (`grobid_tei_block_extractor.py` 51-57), and
  so is a div inside a div: as a div, and as a block of the outer (85, 140).
* A formula is read by its children when it has any but the `<label>` (183-188): then its
  own text and the text between them is lost. Without such a child all there is in it is read, the
  label included, which the chunker then puts before it once more (`Prefix`). A
  formula with nothing else gives its label or its number `n` as its text, and again as
  its prefix.
* A figure with a `figDesc` is read by it alone (227).
* Not read at all, and no part of a `body` here: figures and notes directly
  under the TEI body, heads of lists, what a list has beside its items.
* A heading is dropped when the first text of its section does not fit behind it.

The yardstick of `EveryTextIsIndexed` is the paper and not what the extractor
makes of it: `PaperTexts` is all the text of an element, and `Reads` compares a block with
it. What the extractor repeats or leaves out of the paper is stated there as an
exception for the element it concerns (a `<ref>`, a nested div, a formula or figure read in
part) and for no other, so that a text that is lost, doubled or swapped anywhere else,
by the extractor, the splitter or the chunker, violates the property.

`OverlapIsCarried` states the overlap for the last chunk of a section only. When a
chunk that opens with an overlap must be flushed because the next block does not fit, the
overlap is dropped before (324-338), whether or not dropping it helps; that is how the
code means it (line 327).

### Client

| State | Code |
|---|---|
| `accounts`, `owner`, `projectOf`, `published`, `deleted`, `log` | rows, as far as answers of the API depend on them |
| `token` ... `reload` | `st.session_state`, one variable per key |
| `page`, `at`, `clicked`, `shows` | the page, the next step of its script, whether a click is still to be seen, what the script has learnt of the index |
| `torn` | history: whether a switch of the project was stopped half way, with messages left, and no other was completed since |

A script is cut at its API calls and between two writes to the session state, as Streamlit stops
a script at its accesses to `st.session_state` and at its calls of `st`. A write that
only `st.switch_page` or `st.rerun` follows is one step with it: a click between the two
starts another run of a page with the same session state, as the switch would have,
or leaves the page at once. The switch of the project is `Proceed` (`3_project.py`
356-357), `Unselect` (358) and one `Forget` per kept key (359-362); a log-out, a log-in, a
registration, a creation and the automatic start are cut the same way.
Each call may fail without effect, or with it (`Fails`). `Click` starts the page again, also when a
script is running, which is then gone wherever it is; which widget was clicked is
chosen where the script draws it. `Elsewhere` is what other clients and workers
do: publish a run, delete projects and chats, ask in a chat. Names of projects
are not carried, so `RenameProject` leaves no trace. A token that has expired
is a call that fails. A session may begin at any page, as each has its URL. The page reads the newest `MessageLimit` messages of a chat
(`limit=100`, `3_project.py` 378); that the list of chats ends at 50 (`services/api.py` 344)
is not modelled: a chat that is not listed is one that is not clicked. The model is of
`SKIP_AUTH` off.

What the page shows is checked by two properties. `ShownIsOwn` says what is true: the
messages are consecutive ones of one chat, under a project of the user who is logged in, and
that chat is this user's too, unless the last switch of the project was stopped half
way (`torn`). `ChatIsOfTheProject` says what the comment at `3_project.py` 355 promises, that
the chat is one of the open project, and is violated. A click behind line 357 leaves
the new project recorded and the old chat selected; no later run clears it, because the test at
356 looks at what 357 wrote. If meanwhile another user has logged in, in the same tab,
and it is to one of their projects that the switch was made, the kept messages of the first
user are still there. The order "record, then drop" is the cause: recording the project last
would make every run that was stopped begin again.

## 3. Runs

| Run | Module | Instance | What it shows |
|---|---|---|---|
| `one_job` | MCIndexing | 1 index, 1 start call, 2 cancels, up to 3 chunks in batches of 2, every fault and restarts, with fairness | 48 642 states: completeness of READY, cleanliness of CANCELLED, no work behind a verdict, the only ways verdicts and progress go back, effect of cancel and deletion, implementation of `IndexLifecycle`; every index gets a verdict and a cancel is honoured, except as those properties say |
| `many_jobs` | MCIndexing | 3 indexes of 1 project, 2 start calls, 1 cancel, 1 chunk, failing spawns, pipelines and transactions, restarts, deletion | 736 428 states: jobs are lost by errors of their start call only, never more active runs than calls |
| `stale_cancel` | MCIndexing | 1 index, no fault | violated: a cancel overwrites a verdict |
| `duplicate` | MCIndexing | 2 start calls, no fault | violated: two active runs of a project |
| `projects` | Projects | 2 projects, 3 delete calls, every fault | 31 000 states: files against rows, implementation of `ProjectLife` |
| `orphan` | Projects | insert fails | violated: the PDF of a failed creation stays |
| `reply` | MCReply | 2 projects, 2 chats, 2 calls, 2 indexes, every fault | 1.1 million states: what is stored is consistent and of its own call |
| `retrieval` | MCRetrieval | an index of 3 chunks beside one of 1, 3 requests, 3 answers of the rewriter, 4 of the reranker, 2 tables of similarities and 2 of ranks | 514 530 states: context own, full and best first; the merge has one outcome; citations name the context |
| `document` | MCDocument | 23 877 papers: one div with up to 3 children, two divs, nested divs | 234 624 states: every text of the paper indexed once and in order, chunks within the limit, sections kept together |
| `document_overlap` | MCDocument | the same | violated: the second chunk of a section does not open with the end of the first |
| `client` | MCClient | 2 accounts, 2 projects, 2 runs, 1 chat of up to 2 messages of which 1 is read, every call may fail | 2.86 million states: what is shown is the user's own unless a switch was stopped half way, restarts end, and the script never gets stuck |
| `client_switch` | MCClient | the same | violated: a chat stays open under another project |

Bounds. Three chunks in batches of two give a full and a partial batch, a first
and a later cancel check, short answers of each length, and a surplus in one batch that makes
up for what another lacks. Two cancels are
needed for one to overwrite another's effect; one index suffices because
jobs share nothing but the project, the runner and the start check, which are
the subject of `many_jobs`. There a third index lets a run follow two racing
ones. Indexes, start calls that have ended and cancels that have ended are
reused, so a call may be made any number of times. Three delete calls let
one fail, one overtake and one repeat. In `reply`, two of each let a call
meet a foreign chat, a foreign index and another call's metrics.
`Replies` are not reused: a call ends for good, so its messages stay its own.
In `retrieval`, three chunks are the fewest on which a cut, a tie and a reordering
can all happen at once; the fourth, in an index beside it, is there to be found by
mistake. The two tables of similarities disagree on the best chunk, and so
do the two of ranks; a text that does not match has rank 0. The rewriter may answer up to four
queries in the code and two here (`MaxRewrites`): the question makes a third and its acronym a
fourth. Requests include a `top_n` above `top_k`, one of zero, and a `top_k` above the limit.
In `document`, `MaxChars` 12 lets one, two or no blocks fit behind a heading
and makes some sentences too long; the children of a div are chosen so that each kind of
block, each branch of the splitter and a reference occur, and three in
a row let a flush come before, at and after an oversize block. In `client`, two
users and two projects give every change of ownership; one chat is enough since
`ShownIsOwn` speaks of one at a time, and what a second could do,
stay open from another project, is shown with one by `client_switch`; two messages are a question
and its answer, and reading one of them makes what is shown differ from what was said at
either end. `MCDocument` has formulas of every shape `_equation_block` tells apart: with and without
own text, label, number, one child, several, empty ones.

Deadlock is checked in `client`, where something can always be clicked. The
other systems stop when their bounded calls have ended.

Symmetry is used in the large safety runs (`many_jobs`, `reply`, `client`, and in `client_switch`),
whose properties do not tell calls, rows, users or projects apart, never in a run with a liveness
property.

Fairness. `FairSpec` asks weak fairness of each live worker's next step (the
operating system schedules processes, and every call it waits for returns or
raises: the GROBID client has a 30 s limit, the others those of their HTTP
clients), and of calls the event loop has accepted. Nobody is forced to start,
cancel or delete, no fault is forced to happen, and the worker's choice between
success and failure is left open. After a restart a committed row whose start
call was lost never gets a worker: `EveryIndexGetsAVerdict` names this case
(`Forgotten`), and that of a transaction of the start call that raised, which leaves such a row too, and the others in which no verdict need come (a worker that
died or could not report, a document without chunks, a cancel); it holds
in all the rest, restarts included.

### Disagreements between code and text

1. A cancel may overwrite a verdict (`stale_cancel`); afterwards the index is
   active for ever and the start call keeps returning it.
2. Racing start calls create several active runs (`duplicate`).
3. The cleanup of a failed creation never runs, because `delete` is called with
   a positional argument it does not take (`orphan`).
4. A click can stop the switch to another project between its lines, and the chat of the old project
   stays selected under the new one (`client_switch`).
5. The overlap of chunks never happens (`document_overlap`). The same omission, of
   `buf_texts_norms` at `block_chunker.py` 465, empties `text_norm` of a chunk, "normalized text used for
   better retrieval" (`infrastructure/db/models/indexing.py` 73), of every block that was
   appended to the buffer; as an empty string is not NULL, the body of an ordinary chunk is not
   found by the full-text search.

Each run checks the one property that text states. The passing runs check what
remains true: verdicts are revised by stale cancels only, runs never exceed the
calls at once, a listed project has its file, the text itself is whole, what is shown is
the user's own unless a switch was stopped.

Two more, which no run states. The docstring of the splitter promises pieces within the limit
(`block_chunker.py` 93); `ChunksFit` names the sentences that are longer. The touch of a chat
writes the time of the message without comparing (`infrastructure/reply/repositories.py`
88), so two overlapping calls can move `updated_at` back, where a test of one call after the other
(`test_create_chat_message_use_case.py` 111) sees it advance.

## 4. Proofs

The theorems hold for all values of the constants under the assumptions
`IndexingAssumption` (at least one chunk as bound, an integer batch size, known
faults, `None` distinct), `ProjectsAssumption`, `ReplyAssumption`,
`UnitAssumption` (a positive unit), `RetrievalAssumption` (each chunk has its index and a place
of its own in it; limits are positive; finitely many chunks), `AcronymAssumption` (the acronyms
of a text are texts that are not blank, `build_index_context.py` 126-135, and an
acronym is its own only acronym), `DocumentAssumption` (a positive limit, an overlap that is a
number), `BodiesAssumption` (above) and `ClientAssumption` (limits are numbers, `None` is nothing else).
`RunsAreBounded` also assumes that indexes and start calls are finite sets, which cardinalities need.

**Indexing.** `TypeOK` is not inductive: the batch arithmetic needs
`done <= drafts`. Nothing bounds the vectors, of which batches may bring too few or too many; the
comparison at the store is what makes their number that of the chunks, and it is kept from there to
the commit. The invariant `IInv` of `IndexingProofs` adds, per index: what the
worker's place says about its memory and the rows (nothing stored before
`embed`, chunks equal to drafts afterwards, no embeddings until the commit),
that a verdict goes with a worker that is gone, that a
row not yet created has no worker, no calls and no content, and that an index is
held by one start call at a time. From it follow `ReadyIsComplete`,
`CancelledIsClean`, `NoWorkBehindAVerdict`, `AbandonedOnlyIfEmptyOrCancelled`,
the action property `OnlyStaleCancelReopens`, and the refinement: each action
maps to one action of `IndexLifecycle` or leaves its variables unchanged.
`OnlyErrorsLoseJobs` goes through the actions: a job has a worker, a call that holds it, or a cancel, and only
a start call can take its hold away without giving it a worker or a verdict, because a row is held by one
call and the steps of other calls, workers and owners leave worker, flag and hold as they are
(`LostJobStep`, `WorkerIsLocal`). `NoMoreRunsThanCalls` counts: active uncancelled runs of a project
and calls that are about to create one are together at most as many as there are calls.
A call that creates moves from the second count to the first; one that enters the
second has just found no run at all, so the first is then zero.

Three properties speak of what came before. That an index once cancelled in time is
never READY, and one whose project was deleted before the PDF was read neither, are
proved from two predicates that nothing undoes: `Stopped` (the flag is set, the worker
is not at its last write and there is no READY) and `Doomed` (the PDF is
gone, the worker has not read it and there is no READY). Each is implied by the property's hypothesis and
kept by every step. For `ProgressIsMonotone`, each place of the worker has a
ceiling, what it will report next unless it is stopped or fails; the progress in the row, and
the progress a cancel call remembers, never exceed it, and it only grows.

**Projects.** The invariant adds that a creation past `SaveFile` has a whole file and no row, that a row is there
only after a creation has left that place, and that a delete call past its
read is about a project that has had a row; past its unlink, no whole PDF is left. It gives the three invariants
and the refinement of `ProjectLife`, and `AcknowledgedDelete`.

**Reply.** No property of the stored messages is inductive alone, because a
message is written from what its call has remembered. `IInv` of `ReplyProofs`
says what a call may rely on at each place (`Sound`): its index is of its
project, so is its chat once checked, both for good; from `answer` on it holds
its own metrics; from `history` on its question is in the chat as long as the
chat lives, and earlier than the answer's stamp once that is taken. A call that fails has
nothing to undo (`FailStep`), a step that writes no row needs only a sound new
state (`CallStep`), a deletion takes chats and messages together (`DropStep`).
All six invariants of the run follow.

**Merger.** The rank of a chunk comes from its scores by dividing by a range, and by
taking the best of the queries. Both keep order: `Division` is the one fact of
arithmetic, `NormKeepsOrder` lifts it to a query, and the least and the greatest of a
finite set of numbers exist by a well-founded argument. Hence
`BetterMatchScoresHigher`, for any hits. `OneRanking`: a finite set of chunks whose places
differ can be sorted by score and place in exactly one way. It exists because
the first of what is left can be taken again and again (an induction
over the number of chunks); it is the only one because two rankings that agree before a place
agree at it. `RankingIgnoresOrder`: as the score takes the best of the queries,
permuting the queries changes nothing.

**Retrieval.** `IInv` says of each place of the call what the list it works on is: `HitsOK`
that only own chunks are found, by vector as many as asked or as there are,
`RankedOK` that the ranking is a sequence of own chunks without repetition, of length
`topK` or all of them, in the order of the scores until the load. A sequence
without repetition of the members of a finite set has the set's cardinality, so
loading and reranking cannot lose a chunk while the index keeps its content, which
`RequestOK` says: an index once READY never loses its rows. `PackOK` and
`CitationsNameTheContext` carry this through the store. `MergeHasOneOutcome` applies
`OneRanking` to what the merge has found. `QuestionIsSearched` follows the folds of the query
list: adding a query repeats none and drops none, and acronyms are added after the question, so
the question is there once whatever the rewriter said.

**Folds.** `FoldProofs` makes inductions available to the provers, which cannot instantiate
the library's induction theorems. `Induction` is about a set of numbers instead of a predicate;
`FoldExists` gives the function a fold computes step by step (`FoldsTo`), and `FoldStays` an
invariant of it. A flattened sequence is described by where each part begins
(`IsLayout`) and a filtered one by the increasing places it chooses (`IsChoice`). By `Neighbours`, two
items whose places in one part are next to each other stay so in the whole.

**Document.** `PaperInv` has one part for each phase.

* Until the list is split, `prepared` is exactly what the divs read so far give
  (`ExtractingInv`). `BlocksOfIs` and `ExtractedAre` then say that the blocks are in reading
  order and that each text of the paper is one block, from its first character to
  its last.
* The splitter walks over sentences. `WalkInv` says that the spans emitted tile the text up to
  what is pending, and that what is pending fits or is one sentence alone; so the spans of a
  text tile it, and each fits or is a sentence between two others (`SpansAre`).
  A span that is dropped is a single space; it is never the first or the last, nor are two
  dropped in a row (`PiecesAre`). `SplitReadsAll` lifts this to the whole list.
* While chunks are made (`ChunkingInv`), the texts of the blocks taken so far are
  those laid down in the chunks followed by those in the buffer (`HasRead`): nothing is
  lost, repeated or moved by any flush. The buffer is of the current div, is opened by a heading
  if it has one, and is too long only as a heading alone. The normalised list holds
  at most the text of that heading, so that `Carry` finds nothing to carry
  (`NothingIsCarried`): this is where the missing overlap comes from, and it is also why
  `HasRead` can be an equation.

These speak of the extractor's reading of the paper. That it is the paper's text, up to the exceptions
`EveryTextIsIndexed` names, is `PaperIsRead`: for each kind of element `KidIsRead` compares what
`TextsOf` makes of it with what there is in it (`FormulaIs` goes through the shapes of a
formula, `InnerTextIs` through the divs in a div).

At the end the buffer is empty, so `HasRead` says that the chunks are the prepared
list, and `EveryTextIsIndexed` follows. `ChunksFit` and `SectionsStayTogether` follow from
what `ChunksInv` says of each chunk when it is made. Nothing is assumed of the paper but
`BodiesAssumption`, and nothing of the limits but that `MaxChars` is positive.

**Client.** `IInv` adds to the types that a user who is logged in holds the token, while there is one
(`UserInv`), that the selected project is this user's once the script is past its first call
(`ProjectInv`), and that past the sidebar the project viewed last is the one that is open
(`ViewInv`). `KeptInv` says that kept messages are a stretch of what the chat holds, and that the chat is of the
user who made the project viewed last, except while a switch of the project is under
way or was stopped (`Switching`). Every step of the back
end satisfies `Kept`: no row changes hands, and conversations only grow. A cache survives a
log-out, but the next user views another project, and a switch that runs to its end forgets it.
For `RestartsEnd`, each restart without a click lowers the measure `Left`.

What stays with TLC. Of the properties of the passing runs, two are not stated by a theorem:
`EveryIndexGetsAVerdict` and `CancelIsHonoured` (`one_job`). They are liveness under fairness, and
neither ENABLED nor fairness is in the prover's reach. The inductive invariants they would rest
on are proved. The properties the code violates are of course only refuted, by TLC.

## 5. Not modelled

* The HTTP layer: parsing, schemas and error codes. `Client` takes its answers from
  the use cases.
* The React client. What it relies on is stated of the back end: that verdicts come and stand.
* Configuration, signatures, token counts, migrations: data without state.
* Password hashes and the lifetime of tokens: a refused token is a failed call.
* The content of prompts: the window of the history, the cut at 12 000 characters, the
  question that is in the history it is answered from. Nothing else depends on it.
* The renaming of a project, which writes one column that nothing else reads.
* The rules of the text normaliser, which are regular expressions over characters; `Document`
  models which texts it is given.
* `chunker_v2.py`, `simple_char_chunker.py`, `stop()` of the runner,
  `delete_message.py` and `streamlit_app/components/auth_forms.py`, which are wired in nowhere.

## 6. Plan

Done, in this order: `Indexing`, `IndexLifecycle` and proofs; `Projects`, `ProjectLife` and
proofs; `Reply` and proofs; `Retrieval`, `Merger` and proofs; `Document`; `Client` and proofs;
`FoldProofs`, the proofs of `Document`, and those of the properties left to TLC before.

Left:

1. The prompt: the history window of the rewriter and of `list_recent`, as a
   reference definition over small histories.
2. The React client's polling, beside `Client`.
3. An abstract specification of what indexing promises a reader of the chunks, which
   `Document` implements: the texts of a paper laid end to end.
