---------------------------- MODULE ScanPromise ----------------------------
(* What the scan for received NFTs promises of the blocks behind its cursor: *)
(* each was looked into, is still owed a look, or was given up in one of the *)
(* ways the wallet knows of.                                                 *)
EXTENDS Integers, FiniteSets

CONSTANT MaxOwed   \* how many blocks can be owed between passes

VARIABLES passing,    \* whether a pass is running
          cursor,     \* the scan will not go below this height again
          looked,     \* blocks whose transactions were read
          owed,       \* blocks that are to be fetched again
          forgotten   \* blocks given up

vars == <<passing, cursor, looked, owed, forgotten>>

Init ==
  /\ passing = FALSE
  /\ cursor = -1
  /\ looked = {} /\ owed = {} /\ forgotten = {}

(* What is owed stays owed until it is looked into or given up; a block that *)
(* the cursor has not passed is not owed to anyone yet.                      *)
OwedIsKept ==
  \A h \in owed \ owed' : h \in looked' \cup forgotten' \/ h > cursor

Begin ==
  /\ ~passing /\ passing'
  /\ UNCHANGED <<cursor, looked, owed, forgotten>>

(* Blocks are read, or will have to be tried again.                          *)
Fetch ==
  /\ passing /\ passing'
  /\ looked \subseteq looked'
  /\ OwedIsKept
  /\ UNCHANGED <<cursor, forgotten>>

(* The cursor moves over blocks that are accounted for. What the pass did    *)
(* not fetch or not read is given up.                                        *)
Advance ==
  /\ passing /\ passing'
  /\ forgotten \subseteq forgotten'
  /\ 0 .. cursor' \subseteq looked \cup owed \cup forgotten'
  /\ UNCHANGED <<looked, owed>>

(* More blocks are owed than can be: all but so many are given up.           *)
Overflow ==
  /\ passing /\ passing'
  /\ Cardinality(owed) > MaxOwed /\ Cardinality(owed') >= MaxOwed
  /\ OwedIsKept
  /\ forgotten \subseteq forgotten' /\ forgotten' \subseteq forgotten \cup owed
  /\ UNCHANGED <<cursor, looked>>

(* The pass ends, or the page is closed and what it has not noted is lost.   *)
End ==
  /\ passing /\ ~passing'
  /\ OwedIsKept
  /\ forgotten \subseteq forgotten' /\ forgotten' \subseteq forgotten \cup owed
  /\ UNCHANGED <<cursor, looked>>

Next == Begin \/ Fetch \/ Advance \/ Overflow \/ End

Spec == Init /\ [][Next]_vars
=============================================================================
