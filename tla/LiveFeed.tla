------------------------------ MODULE LiveFeed ------------------------------
(***************************************************************************)
(* What the consumer of a live query may rely on, without a word about     *)
(* marks, the worker or its wake flag:                                     *)
(*                                                                         *)
(*   - its first snapshot has all that was committed before it asked;      *)
(*   - each later one has what the one before had, and all of it has been  *)
(*     committed when it is given;                                         *)
(*   - once it has cancelled or gone away, one more may come, which was    *)
(*     being computed, and after that none.                                *)
(*                                                                         *)
(* Nothing is promised about a snapshot being one committed state: its     *)
(* ids may be older than its rows.                                         *)
(***************************************************************************)
EXTENDS Naturals

CONSTANTS
    Collections,
    Subs,
    CollOf,     \* the collection each subscription queries
    MaxVersion  \* bound on the commits to one collection

VARIABLES
    version, \* committed version of each collection
    phase,   \* how far each subscription is
    asked,   \* while it is being registered, the version when that began
    given    \* its last snapshot

vars == <<version, phase, asked, given>>

Versions == 0..MaxVersion
Results  == [ids : Versions, rows : Versions]

Init ==
    /\ version = [c \in Collections |-> 0]
    /\ phase = [s \in Subs |-> "none"]
    /\ asked = [s \in Subs |-> 0]
    /\ given = [s \in Subs |-> [ids |-> 0, rows |-> 0]]

Goto(s, from, to) == phase[s] = from /\ phase' = [phase EXCEPT ![s] = to]

Commit(touched) ==
    /\ \A c \in touched : version[c] < MaxVersion
    /\ version' = [c \in Collections |-> IF c \in touched THEN version[c] + 1 ELSE version[c]]
    /\ UNCHANGED <<phase, asked, given>>

Ask(s) ==
    /\ Goto(s, "none", "asked")
    /\ asked' = [asked EXCEPT ![s] = version[CollOf[s]]]
    /\ UNCHANGED <<version, given>>

\* The consumer gets a snapshot that has `ids` and `rows` at least.
Give(s, ids, rows) ==
    \E r \in Results :
        /\ ids <= r.ids /\ rows <= r.rows
        /\ r.ids <= r.rows /\ r.rows <= version[CollOf[s]]
        /\ given' = [given EXCEPT ![s] = r]

Open(s) ==
    /\ Goto(s, "asked", "open")
    /\ Give(s, asked[s], asked[s])
    /\ asked' = [asked EXCEPT ![s] = 0]
    /\ UNCHANGED version

Refresh(s) ==
    /\ phase[s] = "open"
    /\ Give(s, given[s].ids, given[s].rows)
    /\ UNCHANGED <<version, phase, asked>>

\* Cancelled, or gone away, with a snapshot being computed or without.
Leave(s) ==
    /\ Goto(s, "open", "leaving") \/ Goto(s, "open", "ended") \/ Goto(s, "leaving", "ended")
    /\ UNCHANGED <<version, asked, given>>

LastOne(s) ==
    /\ Goto(s, "leaving", "ended")
    /\ Give(s, given[s].ids, given[s].rows)
    /\ UNCHANGED <<version, asked>>

Next ==
    \/ \E touched \in SUBSET Collections : Commit(touched)
    \/ \E s \in Subs : Ask(s) \/ Open(s) \/ Refresh(s) \/ Leave(s) \/ LastOne(s)

Spec == Init /\ [][Next]_vars
=============================================================================
