----------------------------- MODULE TwoWaySync -----------------------------
(***************************************************************************)
(* What a two-way sync promises (docs/how-palm-os-hotsync-works.md, "Two-  *)
(* way sync"), stated without the steps that get there: a sync is one      *)
(* step from the two databases the users left to the merge of the two, or  *)
(* it is interrupted, and then the desktop is untouched and no edit made   *)
(* on the device is gone.  The desktop may lose all it has, but only when  *)
(* the device has the merge; such a desktop is not synced again.           *)
(***************************************************************************)
EXTENDS Naturals

CONSTANTS Ids, Data, NoRecord

Keys == Ids \cup {0}

VARIABLES
    device, desktop,  \* the two databases
    outcome           \* how the last sync ended: "none", "merged",
                      \* "interrupted", or "torn"

Is(r, status) == r # NoRecord /\ r.status = status

Modified(r) == r # NoRecord /\ (r.status # "live" \/ r.dirty)

\* A version a user wrote and has not thrown away (archiving keeps it).
Edited(r) == r # NoRecord /\ r.dirty /\ r.status # "deleted"

LiveEdit(r) == Edited(r) /\ r.status = "live"

Touched(k) == Modified(device[k]) \/ Modified(desktop[k])

\* Both sides edited the record, and at least one still wants it live.
Conflicts == {k \in Keys : /\ Edited(device[k]) /\ Edited(desktop[k])
                           /\ LiveEdit(device[k]) \/ LiveEdit(desktop[k])}

Synced(r, k) == [r EXCEPT !.id = k, !.status = "live", !.dirty = FALSE]

\* In a conflict one version keeps the id and the other becomes a new record;
\* an edit wins over a removal or over an unmodified record; a removal wins
\* over an unmodified record; what neither side touched stays as it is.
Merged(db, keep, copy) ==
    LET Kept(k)   == IF keep[k] = "device" THEN device[k] ELSE desktop[k]
        Other(k)  == IF keep[k] = "device" THEN desktop[k] ELSE device[k]
        Copies    == {copy[k] : k \in Conflicts}
        Copied(n) == CHOOSE k \in Conflicts : copy[k] = n
    IN  [n \in Keys |->
            CASE n \in Conflicts -> Synced(Kept(n), n)
              [] n \in Copies -> Synced(Other(Copied(n)), n)
              [] n \notin Copies /\ ~Touched(n) -> db[n]
              [] n \notin Conflicts /\ LiveEdit(device[n]) -> Synced(device[n], n)
              [] n \notin Conflicts /\ LiveEdit(desktop[n]) -> Synced(desktop[n], n)
              [] OTHER -> NoRecord]

Sync ==
    /\ outcome # "torn"
    /\ \E keep \in [Conflicts -> {"device", "desktop"}],
          copy \in [Conflicts -> {n \in Ids : /\ device[n] = NoRecord
                                              /\ desktop[n] = NoRecord}] :
          /\ \A j, k \in Conflicts : copy[j] = copy[k] => j = k
          /\ device' = Merged(device, keep, copy)
          /\ \/ desktop' = Merged(desktop, keep, copy) /\ outcome' = "merged"
             \/ desktop' = [n \in Keys |-> NoRecord] /\ outcome' = "torn"

\* Whatever a failing sync did to the device, each live edit made there is
\* still there, under its id.
Interrupted ==
    /\ outcome # "torn" /\ outcome' = "interrupted"
    /\ desktop' = desktop
    /\ \A k \in Keys : LiveEdit(device[k]) =>
          Is(device'[k], "live") /\ device'[k].data = device[k].data

\* A user changes, adds or flags one record of one side.
Edit ==
    /\ outcome' = outcome
    /\ \E k \in Keys :
          \/ /\ desktop' = desktop /\ Modified(device'[k])
             /\ \A j \in Keys \ {k} : device'[j] = device[j]
          \/ /\ outcome # "torn" /\ device' = device /\ Modified(desktop'[k])
             /\ \A j \in Keys \ {k} : desktop'[j] = desktop[j]

Next == Sync \/ Interrupted \/ Edit

Spec == [][Next]_<<device, desktop, outcome>>
=============================================================================
