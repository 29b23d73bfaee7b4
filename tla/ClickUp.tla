------------------------------ MODULE ClickUp -------------------------------
(***************************************************************************)
(* The ClickUp provider in the worker (internal/provider/clickup): Hydrate *)
(* fetches the task of a delivery, and the comment it is about, while      *)
(* people go on editing, and Normalize makes records of what it got.       *)
(*                                                                         *)
(* One task, with its comments.  What ClickUp says of the task's text or of *)
(* a comment's is the number of its edits.  A delivery is hydrated again    *)
(* until it yields its records, in any order: a dead letter is replayed     *)
(* after younger deliveries.  The outbox stores the records of a delivery   *)
(* once (Outbox).                                                          *)
(*                                                                         *)
(* Times ClickUp reports are epoch milliseconds that no two changes share. *)
(* Parsing, cleaning of text and the checks of ids are left out.           *)
(***************************************************************************)
EXTENDS Limiter, FiniteSets, Sequences

CONSTANTS
    Workers,        \* the goroutines that hydrate
    Lists,          \* the lists the task may be in
    Old,            \* how many comments the task has at the start
    PageSize,       \* commentPage
    MaxPages,       \* maxCommentPages
    MaxChanges      \* bound: changes people make

ASSUME ClickUpAssumption ==
    Old \in Nat /\ MaxChanges \in Nat /\ PageSize \in Nat \ {0} /\ MaxPages \in Nat \ {0}

VARIABLES
    task,       \* what ClickUp says of the task
    comments,   \* the task's comments at ClickUp, newest first
    changes,    \* the deliveries of the changes made, in their order
    call,       \* the Hydrate each goroutine is in
    done,       \* the deliveries whose records are stored
    records,    \* history: the records stored
    gaveUp      \* history: per comment not found, how many were newer, and the pages read

clickUpVars == <<task, comments, changes, call, done, records, gaveUp, limiterVars>>
world == <<task, comments, changes>>

(* A delivery: its subject, the task or a comment's id, and its event time, *)
(* which is 0 when its history has no date that can be read.  History:      *)
(* whether that time, or the one the subject has of its own, shows it.      *)
Task == 0

Unread == 0

(* The time of the next change. The old comments are from before.           *)
Now == Old + Len(changes) + 1

NoTask == [updated |-> 0, edits |-> 0, list |-> "none"]

NoCall ==
    [at |-> "idle", delivery |-> 0, task |-> NoTask, page |-> 0, cursor |-> 0, newer |-> 0]

Comment(id, edits) == [id |-> id, date |-> id, edits |-> edits]

ClickUpInit ==
    /\ LimiterInit
    /\ task \in [updated : {1}, edits : {0}, list : Lists]
    /\ comments = [i \in 1..Old |-> Comment(Old + 1 - i, 0)]
    /\ changes = <<>>
    /\ call = [w \in Workers |-> NoCall]
    /\ done = {} /\ records = {} /\ gaveUp = {}

-----------------------------------------------------------------------------
(* ClickUp and its users *)

(* A change, and the time its subject has of its own from here on.          *)
Change(subject, own) ==
    /\ Len(changes) < MaxChanges
    /\ \E at \in {Now, Unread} :
          changes' = Append(changes, [on |-> subject, at |-> at, shown |-> Now \in {at, own}])
    /\ UNCHANGED <<call, done, records, gaveUp, limiterVars>>

EditTask ==
    /\ Change(Task, Now)
    /\ task' = [task EXCEPT !.updated = Now, !.edits = @ + 1]
    /\ UNCHANGED comments

(* Whether a move between lists moves date_updated, ClickUp does not say.   *)
MoveTask(list) ==
    /\ list # task.list
    /\ \E updated \in {task.updated, Now} :
          /\ Change(Task, updated)
          /\ task' = [task EXCEPT !.list = list, !.updated = updated]
    /\ UNCHANGED comments

PostComment ==
    /\ Change(Now, Now)
    /\ comments' = <<Comment(Now, 0)>> \o comments
    /\ UNCHANGED task

(* An edit does not move a comment's date. *)
EditComment(i) ==
    /\ Change(comments[i].id, comments[i].date)
    /\ comments' = [comments EXCEPT ![i].edits = @ + 1]
    /\ UNCHANGED task

(* A page of comments: the newest of those older than the cursor (start and *)
(* start_id), or the newest of all; comments is newest first.               *)
Page(cursor) ==
    LET skip == Cardinality({i \in DOMAIN comments : cursor # 0 /\ comments[i].date >= cursor}) IN
    SubSeq(comments, skip + 1, Lower(skip + PageSize, Len(comments)))

-----------------------------------------------------------------------------
(* Provider.Hydrate *)

At(w, place) == call[w].at = place

Delivery(w) == changes[call[w].delivery]

Return(w) == call' = [call EXCEPT ![w] = NoCall] /\ UNCHANGED <<done, records>>

Hydrate(w, d) ==
    /\ At(w, "idle") /\ d \in DOMAIN changes \ done
    /\ call' = [call EXCEPT ![w] = [NoCall EXCEPT !.at = "token", !.delivery = d]]
    /\ UNCHANGED <<world, done, records, gaveUp, limiterVars>>

(* Tokens.Token: a token, or ErrNoToken.                                    *)
Token(w) ==
    /\ At(w, "token")
    /\ \/ call' = [call EXCEPT ![w].at = "task"] /\ UNCHANGED <<done, records>>
       \/ Return(w)
    /\ UNCHANGED <<world, gaveUp, limiterVars>>

(* api.get, up to the request: the limiter allows it, or it is              *)
(* ErrRateLimited and nothing is sent.                                      *)
Get(w, place, await) ==
    /\ At(w, place)
    /\ \/ Allow /\ call' = [call EXCEPT ![w].at = await] /\ UNCHANGED <<done, records>>
       \/ Disallow /\ Return(w)
    /\ UNCHANGED <<world, gaveUp>>

GetTask(w) == Get(w, "task", "await task")
GetComments(w) == Get(w, "comment", "await comment")

(* Every other end of api.get: no answer, another status, a body that is    *)
(* too long or not the JSON expected.                                       *)
GetFails(w) ==
    /\ call[w].at \in {"await task", "await comment"}
    /\ Return(w)
    /\ UNCHANGED <<world, gaveUp, limiterVars>>

(* Mutated form: a task's version is its own date_updated.                  *)
SubjectVersionMutant(own, at) == own

(* Mutated form: it is the time of the event, whether or not it has one.    *)
EventVersionMutant(own, at) == at

(* The version of the entity a change is about: a time of its own, or the   *)
(* time of the event, if that is later.                                     *)
SubjectVersion(own, at) == Higher(own, at)

(* taskRecord: beside a comment, at the task's own version.                 *)
TaskRecord(t, version) ==
    [of |-> Task, version |-> version, list |-> t.list, edits |-> t.edits]

CommentRecord(t, c, at) ==
    [of |-> c.id, version |-> SubjectVersion(c.date, at), list |-> t.list, edits |-> c.edits]

(* Normalize, and the outbox, which stores the records of a delivery once.  *)
Prepared(w, new) ==
    /\ call' = [call EXCEPT ![w] = NoCall]
    /\ done' = done \cup {call[w].delivery}
    /\ records' = IF call[w].delivery \in done THEN records ELSE records \cup new

TaskAnswer(w) ==
    /\ At(w, "await task")
    /\ \/ /\ Delivery(w).on = Task
          /\ Prepared(w, {TaskRecord(task, SubjectVersion(task.updated, Delivery(w).at))})
       \/ /\ Delivery(w).on # Task
          /\ call' = [call EXCEPT ![w].task = task, ![w].at = "comment"]
          /\ UNCHANGED <<done, records>>
    /\ UNCHANGED <<world, gaveUp, limiterVars>>

(* Mutated form: the next page starts at the newest comment of this one.    *)
CursorMutant(page) == page[1].date

(* Where api.comment pages back from. *)
Cursor(page) == page[Len(page)].date

(* How many comments are newer than the one wanted when the first page is   *)
(* answered.                                                                *)
Newer(w) ==
    IF call[w].page = 0
    THEN Cardinality({i \in DOMAIN comments : comments[i].date > Delivery(w).on})
    ELSE call[w].newer

GiveUp(w, cut) ==
    /\ gaveUp' = gaveUp \cup {[newer |-> Newer(w), pages |-> call[w].page + 1, cut |-> cut]}
    /\ Return(w)

(* api.comment, for one page: the comment, which may have no date that can  *)
(* be read; the next page; or ErrNotFound, after the last page or a page    *)
(* whose oldest comment has no id or no date to page back from.             *)
CommentsAnswer(w) ==
    LET page == Page(call[w].cursor)
        found == {i \in DOMAIN page : page[i].id = Delivery(w).on} IN
    /\ At(w, "await comment")
    /\ \/ /\ \E i \in found :
                \/ Prepared(w, {TaskRecord(call[w].task, call[w].task.updated),
                                CommentRecord(call[w].task, page[i], Delivery(w).at)})
                \/ Return(w)
          /\ UNCHANGED gaveUp
       \/ /\ found = {} /\ Len(page) = PageSize /\ call[w].page + 1 < MaxPages
          /\ call' = [call EXCEPT ![w].at = "comment", ![w].page = @ + 1,
                                  ![w].cursor = Cursor(page), ![w].newer = Newer(w)]
          /\ UNCHANGED <<done, records, gaveUp>>
       \/ /\ found = {} /\ (Len(page) < PageSize \/ call[w].page + 1 = MaxPages)
          /\ GiveUp(w, FALSE)
       \/ /\ found = {} /\ Len(page) = PageSize
          /\ GiveUp(w, TRUE)
    /\ UNCHANGED <<world, limiterVars>>

-----------------------------------------------------------------------------

ClickUpNext ==
    \/ Tick /\ UNCHANGED <<world, call, done, records, gaveUp>>
    \/ EditTask \/ PostComment
    \/ \E list \in Lists : MoveTask(list)
    \/ \E i \in DOMAIN comments : EditComment(i)
    \/ \E w \in Workers :
          \/ \E d \in DOMAIN changes : Hydrate(w, d)
          \/ Token(w) \/ GetTask(w) \/ GetComments(w) \/ GetFails(w)
          \/ TaskAnswer(w) \/ CommentsAnswer(w)

ClickUpSpec == ClickUpInit /\ [][ClickUpNext]_clickUpVars

-----------------------------------------------------------------------------
(* Properties *)

(* A change is unseen when neither the event nor its subject has the time   *)
(* of it: a comment's edit whose event has no date that can be read, and a  *)
(* move like that when date_updated does not move.  A later change of the   *)
(* subject that is seen makes up for it.                                    *)
SeenOf(subject) ==
    \A d \in DOMAIN changes : changes[d].on = subject =>
        \E e \in DOMAIN changes : d <= e /\ changes[e].on = subject /\ changes[e].shown

(* version, for ADR 4: with the records of every delivery stored, in        *)
(* whatever order, the newest version of each entity is its content as it   *)
(* is now, and for the task its list too.  Its last change has to be one    *)
(* that is seen: after any other the comment on version is not so, and the  *)
(* newest version may be what the entity was before.                        *)
LatestIsCurrent ==
    done = DOMAIN changes =>
        \A r \in records :
            SeenOf(r.of) /\ (\A s \in records : s.of = r.of => s.version <= r.version) =>
                IF r.of = Task
                THEN r.list = task.list /\ r.edits = task.edits
                ELSE \E i \in DOMAIN comments : comments[i].id = r.of /\ comments[i].edits = r.edits

(* The version of a comment that was edited unseen, and kept its own date.  *)
KeptVersion(r) ==
    /\ \E d \in DOMAIN changes : changes[d].on = r.of /\ ~changes[d].shown
    /\ \E i \in DOMAIN comments : comments[i].id = r.of /\ comments[i].date = r.version

(* The record id hashes entity, version and scope, and the ledger skips an  *)
(* id it knows: two records with one id must say the same.  The task's do,  *)
(* and a comment's do but for one case: edited with an event that has no    *)
(* date that can be read, it keeps its version and its id, and the ledger   *)
(* skips the new text.                                                      *)
IdNamesContent ==
    \A r, s \in records :
        r.of = s.of /\ r.version = s.version /\ r.list = s.list
            => r.edits = s.edits \/ KeptVersion(r)

(* api.comment: a comment that has an id is not found only when MaxPages    *)
(* whole pages are newer, whatever is posted while it pages; or, when the   *)
(* search is cut short because the oldest comment of a page has no id or no *)
(* date, when all the pages read are newer.                                 *)
RecentIsFound ==
    \A g \in gaveUp : g.newer >= PageSize * (IF g.cut THEN g.pages ELSE MaxPages)

=============================================================================
