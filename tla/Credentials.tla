---------------------------- MODULE Credentials ----------------------------
(***************************************************************************)
(* The keys of the two LAN name servers                                    *)
(* (nix/dns/modules/lan-host-credentials.py and lan-host.nix).             *)
(*                                                                         *)
(* On each host a unit runs a script before Knot starts.  The primary's    *)
(* draws the transfer key once; the operator takes it to the secondary,    *)
(* whose script imports it.  The tree of files is staged in a hidden       *)
(* directory, synced, and renamed into place; a marker is written last.    *)
(* The script may be killed between any two of its system calls, and the   *)
(* machine may lose power and with it every directory entry that was not   *)
(* synced.  Whatever is there after that, the next start goes by.          *)
(*                                                                         *)
(* Data abstraction: a tree is the transfer key in it and how many of its  *)
(* files are there; owners, modes and the update key are left out.  The    *)
(* file system, Knot and the operator are external.                        *)
(***************************************************************************)
EXTENDS Naturals, FiniteSets

CONSTANTS
    Files,     \* files in a tree
    MaxKeys    \* bound: keys the primary draws

ASSUME CredentialsAssumption ==
    /\ Files \in Nat \ {0}
    /\ MaxKeys \in Nat

VARIABLES
    step,      \* host -> what its script does next, or how it ended
    tree,      \* host -> the tree of credentials
    fixed,     \* host -> whether the entry of the tree survives a power failure
    marker,    \* host -> the file `initialized'
    dns,       \* host -> whether Knot's state directory has data
    imported,  \* the key the secondary's script has read
    handed,    \* the key in the secondary's transfer_secret_file, or NoKey
    drawn,     \* keys drawn so far
    given,     \* history: host -> the keys Knot has been started with
    cut        \* history: host -> a script ended between the rename and its syncing

vars == <<step, tree, fixed, marker, dns, imported, handed, drawn, given, cut>>

Hosts == {"primary", "secondary"}
NoKey == 0
Keys == 1 .. MaxKeys

Ended == {"off", "failed", "active"}
Steps == Ended \cup {"look", "stage", "write", "sync", "rename", "syncbase",
                     "check", "mark", "fill", "verify"}

Tree == [place : {"none", "staged", "final"}, key : Keys \cup {NoKey},
         files : 0 .. Files, synced : BOOLEAN]

NoTree == [place |-> "none", key |-> NoKey, files |-> 0, synced |-> TRUE]

Goto(h, next) == step' = [step EXCEPT ![h] = next]

----------------------------------------------------------------------------
(* main, step by step.  An exception ends it: the unit has failed. *)

(* Mutant of Start: a secondary whose transfer_secret_file is missing or    *)
(* invalid goes on without a secret.                                        *)
StartWithoutSecret(h) ==
    /\ step[h] \in {"off", "failed"}
    /\ Goto(h, "look")
    /\ imported' = IF h = "secondary" THEN handed ELSE imported
    /\ UNCHANGED <<tree, fixed, marker, dns, handed, drawn, given, cut>>

(* The secondary reads its transfer_secret_file first. *)
Start(h) ==
    /\ step[h] \in {"off", "failed"}
    /\ IF h = "secondary" /\ handed = NoKey
       THEN Goto(h, "failed") /\ UNCHANGED imported
       ELSE /\ Goto(h, "look")
            /\ imported' = IF h = "secondary" THEN handed ELSE imported
    /\ UNCHANGED <<tree, fixed, marker, dns, handed, drawn, given, cut>>

BaseEmpty(h) == tree[h].place = "none" /\ marker[h] = "none"

(* Mutant of Look: DNS data without credentials is no reason to refuse. *)
LookAtBase(h) ==
    /\ step[h] = "look"
    /\ Goto(h, IF tree[h].place = "final" THEN "check"
               ELSE IF BaseEmpty(h) THEN "stage" ELSE "failed")
    /\ UNCHANGED <<tree, fixed, marker, dns, imported, handed, drawn, given, cut>>

(* Nothing is initialized over what is left of an earlier attempt, or       *)
(* beside DNS data that was made with other keys.                           *)
Look(h) ==
    /\ step[h] = "look"
    /\ Goto(h, IF tree[h].place = "final" THEN "check"
               ELSE IF BaseEmpty(h) /\ ~dns[h] THEN "stage" ELSE "failed")
    /\ UNCHANGED <<tree, fixed, marker, dns, imported, handed, drawn, given, cut>>

Stage(h) ==
    /\ step[h] = "stage"
    /\ IF h = "primary" THEN drawn < MaxKeys /\ drawn' = drawn + 1 ELSE UNCHANGED drawn
    /\ tree' = [tree EXCEPT ![h] =
         [place |-> "staged", files |-> 0, synced |-> FALSE,
          key |-> IF h = "primary" THEN drawn + 1 ELSE imported]]
    /\ fixed' = [fixed EXCEPT ![h] = FALSE]
    /\ cut' = [cut EXCEPT ![h] = FALSE]
    /\ Goto(h, "write")
    /\ UNCHANGED <<marker, dns, imported, handed, given>>

(* One write(): the data is synced, the entry is not. *)
WriteFile(h) ==
    /\ step[h] = "write"
    /\ tree' = [tree EXCEPT ![h].files = @ + 1]
    /\ Goto(h, IF tree[h].files + 1 = Files THEN "sync" ELSE "write")
    /\ UNCHANGED <<fixed, marker, dns, imported, handed, drawn, given, cut>>

SyncTree(h) ==
    /\ step[h] = "sync"
    /\ tree' = [tree EXCEPT ![h].synced = TRUE]
    /\ Goto(h, "rename")
    /\ UNCHANGED <<fixed, marker, dns, imported, handed, drawn, given, cut>>

Rename(h) ==
    /\ step[h] = "rename"
    /\ tree' = [tree EXCEPT ![h].place = "final"]
    /\ Goto(h, "syncbase")
    /\ UNCHANGED <<fixed, marker, dns, imported, handed, drawn, given, cut>>

(* Mutant of SyncBase: the renaming is not synced. *)
SyncBaseNot(h) ==
    /\ step[h] = "syncbase"
    /\ Goto(h, "check")
    /\ UNCHANGED <<tree, fixed, marker, dns, imported, handed, drawn, given, cut>>

SyncBase(h) ==
    /\ step[h] = "syncbase"
    /\ fixed' = [fixed EXCEPT ![h] = TRUE]
    /\ Goto(h, "check")
    /\ UNCHANGED <<tree, marker, dns, imported, handed, drawn, given, cut>>

Complete(h) == tree[h].files = Files

(* The tree must be whole, and the secondary's key the imported one. *)
Check(h) ==
    /\ step[h] = "check"
    /\ Goto(h, IF Complete(h) /\ (h = "secondary" => tree[h].key = imported)
               THEN IF marker[h] = "none" THEN "mark" ELSE "verify"
               ELSE "failed")
    /\ UNCHANGED <<tree, fixed, marker, dns, imported, handed, drawn, given, cut>>

(* open("x"), and then the text.  The base is not synced again. *)
CreateMarker(h) ==
    /\ step[h] = "mark"
    /\ marker' = [marker EXCEPT ![h] = "empty"]
    /\ Goto(h, "fill")
    /\ UNCHANGED <<tree, fixed, dns, imported, handed, drawn, given, cut>>

FillMarker(h) ==
    /\ step[h] = "fill"
    /\ marker' = [marker EXCEPT ![h] = "full"]
    /\ Goto(h, "verify")
    /\ UNCHANGED <<tree, fixed, dns, imported, handed, drawn, given, cut>>

(* The unit succeeds if the marker is whole. *)
Verify(h) ==
    /\ step[h] = "verify"
    /\ Goto(h, IF marker[h] = "full" THEN "active" ELSE "failed")
    /\ UNCHANGED <<tree, fixed, marker, dns, imported, handed, drawn, given, cut>>

----------------------------------------------------------------------------
(* Knot and the operator *)

StartKnot(h) ==
    /\ step[h] = "active"
    /\ dns' = [dns EXCEPT ![h] = TRUE]
    /\ given' = [given EXCEPT ![h] = @ \cup {tree[h].key}]
    /\ UNCHANGED <<step, tree, fixed, marker, imported, handed, drawn, cut>>

(* transfer.secret of a primary that serves is taken to the other host. *)
Handoff ==
    /\ step["primary"] = "active"
    /\ dns["primary"]
    /\ handed' = tree["primary"].key
    /\ UNCHANGED <<step, tree, fixed, marker, dns, imported, drawn, given, cut>>

(* A first initialization that did not complete is cleared away. *)
Recover(h) ==
    /\ step[h] = "failed"
    /\ given[h] = {}
    /\ ~BaseEmpty(h)
    /\ tree' = [tree EXCEPT ![h] = NoTree]
    /\ marker' = [marker EXCEPT ![h] = "none"]
    /\ fixed' = [fixed EXCEPT ![h] = TRUE]
    /\ UNCHANGED <<step, dns, imported, handed, drawn, given, cut>>

(* The credentials of a host that has DNS data are lost, all of them. *)
LoseBase(h) ==
    /\ step[h] \in {"off", "failed"}
    /\ dns[h]
    /\ tree' = [tree EXCEPT ![h] = NoTree]
    /\ marker' = [marker EXCEPT ![h] = "none"]
    /\ fixed' = [fixed EXCEPT ![h] = TRUE]
    /\ UNCHANGED <<step, dns, imported, handed, drawn, given, cut>>

----------------------------------------------------------------------------
(* Faults *)

(* The script is killed, or an active unit is stopped. *)
Stop(h) ==
    /\ step[h] \notin {"off", "failed"}
    /\ Goto(h, IF step[h] = "active" THEN "off" ELSE "failed")
    /\ cut' = [cut EXCEPT ![h] = @ \/ step[h] = "syncbase"]
    /\ UNCHANGED <<tree, fixed, marker, dns, imported, handed, drawn, given>>

(* What a tree may be after a power failure.  A rename that was not synced  *)
(* may be undone, and files whose entries were not synced may be gone.      *)
Survivors(h) ==
    LET t == tree[h]
        kept == IF t.synced THEN {t} ELSE {[t EXCEPT !.files = n] : n \in 0 .. t.files}
    IN  IF fixed[h] THEN kept
        ELSE {NoTree} \cup kept \cup {[k EXCEPT !.place = "staged"] : k \in kept}

(* The entry of the marker is never synced, its text is. *)
PowerFailure(h) ==
    /\ step[h] # "off"
    /\ Goto(h, "off")
    /\ \E t \in Survivors(h) : tree' = [tree EXCEPT ![h] = [t EXCEPT !.synced = TRUE]]
    /\ \E m \in {"none", marker[h]} : marker' = [marker EXCEPT ![h] = m]
    /\ fixed' = [fixed EXCEPT ![h] = TRUE]
    /\ cut' = [cut EXCEPT ![h] = FALSE]
    /\ UNCHANGED <<dns, imported, handed, drawn, given>>

----------------------------------------------------------------------------
Init ==
    /\ step = [h \in Hosts |-> "off"]
    /\ tree = [h \in Hosts |-> NoTree]
    /\ fixed = [h \in Hosts |-> TRUE]
    /\ marker = [h \in Hosts |-> "none"]
    /\ dns = [h \in Hosts |-> FALSE]
    /\ imported = NoKey
    /\ handed = NoKey
    /\ drawn = 0
    /\ given = [h \in Hosts |-> {}]
    /\ cut = [h \in Hosts |-> FALSE]

Main(h) ==
    \/ Start(h) \/ Look(h) \/ Stage(h) \/ WriteFile(h) \/ SyncTree(h) \/ Rename(h)
    \/ SyncBase(h) \/ Check(h) \/ CreateMarker(h) \/ FillMarker(h) \/ Verify(h)

Next ==
    \/ \E h \in Hosts :
         \/ Main(h)
         \/ StartKnot(h) \/ Recover(h) \/ LoseBase(h) \/ Stop(h) \/ PowerFailure(h)
    \/ Handoff

Spec == Init /\ [][Next]_vars

----------------------------------------------------------------------------
(* Type correctness of the file systems and the scripts. *)
TypeOK ==
    /\ step \in [Hosts -> Steps]
    /\ tree \in [Hosts -> Tree]
    /\ fixed \in [Hosts -> BOOLEAN]
    /\ marker \in [Hosts -> {"none", "empty", "full"}]
    /\ dns \in [Hosts -> BOOLEAN]
    /\ imported \in Keys \cup {NoKey}
    /\ handed \in Keys \cup {NoKey}
    /\ drawn \in 0 .. MaxKeys
    /\ given \in [Hosts -> SUBSET Keys]
    /\ cut \in [Hosts -> BOOLEAN]

(* A host never works with a second key, however often its script was cut   *)
(* short, the machine lost power or its credentials were lost: "there is no *)
(* silent key replacement or automatic rotation" (lan-two-host.md).         *)
OneKeyEver == \A h \in Hosts : Cardinality(given[h]) <= 1

(* What a unit has released is on the disk for good: after a power failure  *)
(* the whole tree is in place, with the same key (the fsync calls before    *)
(* and after the rename).  The one exception is a script that was killed    *)
(* between the rename and the fsync of the base: the next start finds the   *)
(* tree in place and syncs nothing.                                         *)
ReleasedDurable ==
    \A h \in Hosts : step[h] = "active" /\ ~cut[h] =>
        \A t \in Survivors(h) :
            t.place = "final" /\ t.files = Files /\ t.key = tree[h].key

(* Both servers, whenever both run, have the same transfer key, though the  *)
(* primary may have lost power since the operator took the key from it.     *)
TransferKeysAgree ==
    step["primary"] = "active" /\ step["secondary"] = "active" =>
        tree["primary"].key = tree["secondary"].key
============================================================================
