------------------------------- MODULE Records -------------------------------
(***************************************************************************)
(* One record of the console, one of its attributes, and the edit form in  *)
(* one browser, beside everybody else who edits the same record.           *)
(*                                                                         *)
(* A page shows the data of its query.  The query cache outlives the page: *)
(* data is shown again on the next visit, after two minutes (users: half a *)
(* minute) with a new load.  A form keeps what it was filled with until it *)
(* is filled again, and sends all of it with If-Match.  The server's check *)
(* and its UPDATE are one step: the version is part of the UPDATE's WHERE. *)
(* The other attributes show up as changes of the version alone.  In       *)
(* flight are one load per query and one save of this browser at a time.   *)
(***************************************************************************)
EXTENDS Naturals, Forms

CONSTANTS
  Followed,    \* the forms and attributes followed, <<form, attribute>>
  MaxVersion,  \* bound: others do not edit, and nothing is submitted, from this version on
  None

VARIABLES
  subject,  \* the form and the attribute followed
  place,    \* the page the browser shows
  row,      \* the record in the database
  cache,    \* the query of each page: its data, its load, whether it was invalidated
  dialog,   \* the open form or confirmation
  request,  \* the save or deletion under way
  saved     \* history: the version of the last save made and acknowledged on each page

vars == <<subject, place, row, cache, dialog, request, saved>>

F == subject[1]
Attribute == subject[2]
Places == PagesOf[F]
Here == Page[place]

Value == {"", "first", "theirs", "mine", "retired"}
Snapshot == [version : Nat, value : Value]
Gone == [version |-> 0, value |-> ""]
Exists(s) == s # None /\ s # Gone

Idle == [data |-> None, load |-> "none", read |-> None, old |-> FALSE]
Asked(q) == [q EXCEPT !.load = "asked", !.read = None]
Loading(q) == q.load \in {"asked", "read"}

InitialCache == [p \in Places |-> IF p = place THEN Asked(Idle) ELSE Idle]

Init ==
  /\ subject \in Followed /\ Attribute \in Sent[F]
  /\ place \in Places
  /\ row = [version |-> 1, value |-> "first"]
  /\ cache = InitialCache
  /\ dialog = None /\ request = None
  /\ saved = [p \in Places |-> 0]
-----------------------------------------------------------------------------
(***************************************************************************)
(* The queries                                                             *)
(***************************************************************************)
\* What a mounting page does with its query: a load under way is joined.
Mounted(q, aged) ==
  IF ~Loading(q) /\ (q.data = None \/ q.old \/ aged) THEN Asked(q) ELSE q

Leave(to, aged) ==
  /\ place' = to
  /\ dialog' = None
  /\ request' = IF request = None THEN None ELSE [request EXCEPT !.here = FALSE]
  /\ cache' = [cache EXCEPT ![to] = Mounted(@, aged)]

Visit(p, aged) ==
  /\ p # place
  /\ Leave(p, aged)
  /\ UNCHANGED <<subject, row, saved>>

\* A table leaves out a retired record; the status is followed only when it is
\* the attribute, so the table of a record that may be retired answers either way.
Answers(p) == IF F \in Retiring /\ Page[p].home = p THEN {row, Gone} ELSE {row}

Read(p) ==
  /\ cache[p].load = "asked"
  /\ \E s \in Answers(p) : cache' = [cache EXCEPT ![p].load = "read", ![p].read = s]
  /\ UNCHANGED <<subject, place, row, dialog, request, saved>>

Fill(kind, s) ==
  [kind |-> kind, base |-> s, typed |-> FALSE,
   value |-> IF Attribute \in Filled[F] THEN s.value ELSE ""]

Refilled(new, changed) ==
  IF dialog = None \/ ~changed THEN dialog
  ELSE IF Here.copies THEN dialog
  ELSE IF Exists(new) THEN Fill(dialog.kind, new) ELSE None

FilledOnce(new, changed) ==   \* fault: the form is filled when it opens and never again
  IF dialog # None /\ ~Here.copies /\ ~Exists(new) THEN None ELSE dialog

\* The effect that fills a form runs whenever the record it edits is another object.
Refill(new, changed) == Refilled(new, changed)

Arrive(p) ==
  LET new == cache[p].read IN
  /\ cache[p].load = "read"
  /\ cache' = [cache EXCEPT ![p] = [Idle EXCEPT !.data = new]]
  /\ dialog' = IF p = place THEN Refill(new, new # cache[p].data) ELSE dialog
  /\ UNCHANGED <<subject, place, row, request, saved>>

\* The error takes the place of the page; its dialogs are mounted again later.
LoadFails(p) ==
  /\ Loading(cache[p])
  /\ cache' = [cache EXCEPT ![p].load = "failed", ![p].read = None]
  /\ dialog' = IF p = place /\ dialog # None /\ Here.covers = "page" /\ Here.how # "write"
               THEN Fill(dialog.kind, dialog.base) ELSE dialog
  /\ UNCHANGED <<subject, place, row, request, saved>>

Retry ==
  /\ cache[place].load = "failed"
  /\ cache' = [cache EXCEPT ![place] = Asked(@)]
  /\ UNCHANGED <<subject, place, row, dialog, request, saved>>
-----------------------------------------------------------------------------
(***************************************************************************)
(* The forms                                                               *)
(***************************************************************************)
Visible == Here.covers = "page" => cache[place].load # "failed"

\* The record that a save or a deletion names: the row copied on opening, or
\* whatever the page shows by now.
Target(kind) ==
  IF (kind = "edit" /\ Here.copies) \/ (kind = "delete" /\ Here.deletes = "copied")
  THEN dialog.base ELSE cache[place].data

Open(kind) ==
  /\ dialog = None /\ Exists(cache[place].data)
  /\ cache[place].load = "failed" => Here.covers = "nothing"
  /\ kind = "delete" => Here.deletes # "no"
  /\ dialog' = Fill(kind, cache[place].data)
  /\ UNCHANGED <<subject, place, row, cache, request, saved>>

Type(v) ==
  /\ dialog # None /\ Visible /\ dialog.kind = "edit" /\ Attribute \in Editable[F]
  /\ request # None /\ request.here => F \in OpenWhileSending
  /\ dialog' = [dialog EXCEPT !.value = v, !.typed = TRUE]
  /\ UNCHANGED <<subject, place, row, cache, request, saved>>

Close ==
  /\ dialog # None /\ Here.how # "write"
  /\ dialog' = None
  /\ UNCHANGED <<subject, place, row, cache, request, saved>>

Submit ==
  /\ dialog # None /\ Visible /\ request = None /\ row.version < MaxVersion
  /\ dialog.kind = "edit" /\ Attribute \in Required[F] => dialog.value # ""
  /\ request' = [stage |-> "sent", kind |-> dialog.kind, version |-> Target(dialog.kind).version,
                 seen |-> dialog.base.version, value |-> dialog.value, typed |-> dialog.typed,
                 result |-> None, page |-> place, here |-> TRUE]
  /\ UNCHANGED <<subject, place, row, cache, dialog, saved>>
-----------------------------------------------------------------------------
(***************************************************************************)
(* The server                                                              *)
(***************************************************************************)
Accepted(r) == Exists(row) /\ r.version = row.version
AnyVersion(r) == Exists(row)   \* fault: If-Match is not compared

IfMatch(r) == Accepted(r)

Patched(r) ==
  IF Attribute \notin Sent[F] \/ (r.value = "" /\ Attribute \in KeptOnNull[F])
  THEN row.value ELSE r.value

\* What a deletion leaves of a record that retired parts still refer to.
Retired ==
  [version |-> row.version + 1, value |-> IF Attribute = "status" THEN "retired" ELSE row.value]

Serve ==
  /\ request # None /\ request.stage = "sent" /\ IfMatch(request)
  /\ \/ request.kind = "edit" /\ row' = [version |-> row.version + 1, value |-> Patched(request)]
     \/ request.kind = "delete" /\ row' = Gone
     \/ request.kind = "delete" /\ F \in Retiring /\ row' = Retired
  /\ request' = [request EXCEPT !.stage = "done", !.result = row']
  /\ UNCHANGED <<subject, place, cache, dialog, saved>>

\* 404, 409, 412, 422, or the network; the answer to an accepted request may be lost.
Fails ==
  /\ request # None
  /\ request' = None
  /\ UNCHANGED <<subject, place, row, cache, dialog, saved>>

\* A deletion that retires is, of others, an edit.
OthersEdit(v) ==
  /\ Exists(row) /\ row.version < MaxVersion
  /\ row' = [version |-> row.version + 1, value |-> v]
  /\ UNCHANGED <<subject, place, cache, dialog, request, saved>>

OthersDelete ==
  /\ Exists(row) /\ F \notin Permanent /\ row' = Gone
  /\ UNCHANGED <<subject, place, cache, dialog, request, saved>>
-----------------------------------------------------------------------------
(***************************************************************************)
(* The answer                                                              *)
(***************************************************************************)
\* refetch() loads again, shown or not; invalidateQueries() loads what is shown
\* and marks the rest; setQueryData() leaves a load under way alone.
Refresh(from) ==
  [p \in Places |->
    IF p \notin Page[from].after THEN cache[p]
    ELSE CASE Page[from].how = "write" ->
                [cache[p] EXCEPT !.data = request.result, !.old = FALSE]
           [] \/ Page[from].how = "refetch"
              \/ Page[from].how = "invalidate" /\ p = place -> Asked(cache[p])
           [] OTHER -> [cache[p] EXCEPT !.old = TRUE]]

NoRefresh(from) == cache   \* fault: the caller of the form forgets the refetch

Refreshed(from) == Refresh(from)

Saved ==
  /\ request # None /\ request.stage = "done" /\ request.kind = "edit"
  /\ cache' = Refreshed(request.page)
  /\ dialog' = IF request.here THEN None ELSE dialog
  /\ saved' = IF request.page = place \/ Page[request.page].how = "refetch"
              THEN [saved EXCEPT ![request.page] = request.result.version] ELSE saved
  /\ request' = None
  /\ UNCHANGED <<subject, place, row>>

\* A detail page leads to its list, even when the operator has left it meanwhile.
Deleted(aged) ==
  /\ request # None /\ request.stage = "done" /\ request.kind = "delete"
  /\ LET from == request.page
         to   == Page[from].home
     IN  IF to = from
         THEN /\ cache' = Refreshed(from)
              /\ dialog' = IF request.here THEN None ELSE dialog
              /\ UNCHANGED place
         ELSE /\ place' = to
              /\ dialog' = IF place = to THEN dialog ELSE None
              /\ cache' = IF place = to THEN cache ELSE [cache EXCEPT ![to] = Mounted(@, aged)]
  /\ request' = None
  /\ UNCHANGED <<subject, row, saved>>
-----------------------------------------------------------------------------
Next ==
  \/ \E p \in Places : Read(p) \/ Arrive(p) \/ LoadFails(p) \/ \E aged \in BOOLEAN : Visit(p, aged)
  \/ Retry \/ Close \/ Submit \/ Serve \/ Fails \/ Saved \/ OthersDelete
  \/ \E kind \in {"edit", "delete"} : Open(kind)
  \/ \E v \in {"mine", ""} : Type(v)
  \/ \E v \in {row.value, "theirs"} : OthersEdit(v)
  \/ \E aged \in BOOLEAN : Deleted(aged)

Spec == Init /\ [][Next]_vars
-----------------------------------------------------------------------------
(***************************************************************************)
(* Properties                                                              *)
(***************************************************************************)
\* A save or a deletion is accepted only over what the operator had before
\* them, and then changes of the attribute what was typed into it and nothing
\* else, although the form sends every attribute back.  An emptied attribute
\* that the server keeps on null stays as it is.
NothingOverwritten ==
  [][row' # row /\ request # None /\ request' # None /\ request.stage # request'.stage =>
       /\ request.seen = row.version
       /\ request.kind = "edit" =>
            \/ row'.value = row.value
            \/ request.typed /\ row'.value = request.value]_vars

\* A page on which the operator has saved shows that save or something newer
\* as soon as it is at rest, whatever loads were under way meanwhile.
OwnSaveShown ==
  LET q == cache[place] IN
    q.load = "none" /\ Exists(q.data) /\ Here.how # "write" => q.data.version >= saved[place]

TypeOK ==
  /\ Attribute \in Sent[F]
  /\ place \in Places
  /\ row \in Snapshot
  /\ DOMAIN cache = Places /\ DOMAIN saved = Places
  /\ \A p \in Places :
       /\ cache[p].data \in Snapshot \cup {None}
       /\ cache[p].load \in {"none", "asked", "read", "failed"}
       /\ cache[p].load = "read" <=> cache[p].read # None
  /\ dialog # None => dialog.base \in Snapshot /\ dialog.value \in Value
  /\ request # None => request.stage \in {"sent", "done"} /\ request.page \in Places
=============================================================================
