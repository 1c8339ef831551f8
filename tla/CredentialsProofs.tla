------------------------- MODULE CredentialsProofs -------------------------
(***************************************************************************)
(* Proofs about the keys of the LAN name servers (module Credentials), for *)
(* trees of any size, any number of keys drawn, kills and power failures.  *)
(*                                                                         *)
(* The inductive invariant says which keys Knot can have been started with *)
(* (Kept), what is on the disk at each step of the script (Placed), and    *)
(* that a key in the operator's hands is the one the primary has used      *)
(* (Carried).                                                              *)
(***************************************************************************)
EXTENDS Credentials, FiniteSetTheorems, TLAPS

(* Steps after the check of the tree. *)
Checked == {"mark", "fill", "verify", "active"}

(* DNS data and a used key come together, no tree is staged beside them,    *)
(* and a tree that is in place holds that key.                              *)
Kept ==
    \A h \in Hosts :
        /\ dns[h] <=> given[h] # {}
        /\ dns[h] => \E k \in Keys : given[h] = {k}
        /\ dns[h] => step[h] \notin {"stage", "write", "sync", "rename", "syncbase"}
        /\ dns[h] /\ tree[h].place = "final" => given[h] = {tree[h].key}

(* A tree in place has a key and was synced before it was renamed; its own  *)
(* entry is synced unless the script is about to, or was stopped before it. *)
Placed ==
    \A h \in Hosts :
        /\ step[h] \in Checked \cup {"syncbase", "check"} => tree[h].place = "final"
        /\ step[h] \in {"write", "sync", "rename"} =>
              tree[h].place = "staged" /\ tree[h].key \in Keys
        /\ step[h] = "write" => tree[h].files < Files
        /\ step[h] = "rename" => tree[h].synced
        /\ step[h] \in Checked => tree[h].files = Files
        /\ tree[h].place = "final" => tree[h].synced /\ tree[h].key \in Keys
        /\ tree[h].place = "final" /\ ~cut[h] /\ step[h] # "syncbase" => fixed[h]

(* A key that was handed over is the primary's, and the secondary's script  *)
(* passes its check only with the key it has read.                          *)
Carried ==
    /\ handed # NoKey => given["primary"] = {handed}
    /\ imported # NoKey => given["primary"] = {imported}
    /\ step["secondary"] \notin Ended \/ step["secondary"] = "active" => imported # NoKey
    /\ step["secondary"] \in Checked => tree["secondary"].key = imported

CredentialsInv == TypeOK /\ Kept /\ Placed /\ Carried

(* On new hosts the invariant holds. *)
LEMMA InitInv == Init => CredentialsInv
  BY CredentialsAssumption
     DEF Init, CredentialsInv, TypeOK, Kept, Placed, Carried, Hosts, Steps, Ended,
         Checked, Tree, NoTree, NoKey, Keys

(* The script is started by systemd or the operator. *)
LEMMA StartInv ==
    ASSUME CredentialsInv, NEW h \in Hosts, Start(h)
    PROVE  CredentialsInv'
  BY CredentialsAssumption
     DEF CredentialsInv, TypeOK, Kept, Placed, Carried, Hosts, Steps,
         Ended, Checked, Tree, NoTree, NoKey, Keys, Goto, Start

(* Nothing is staged beside DNS data. *)
LEMMA LookInv ==
    ASSUME CredentialsInv, NEW h \in Hosts, Look(h)
    PROVE  CredentialsInv'
  BY CredentialsAssumption
     DEF CredentialsInv, TypeOK, Kept, Placed, Carried, Hosts, Steps,
         Ended, Checked, Tree, NoTree, NoKey, Keys, Goto, Look, BaseEmpty

(* A key is drawn, or the imported one taken, where none was used. *)
LEMMA StageInv ==
    ASSUME CredentialsInv, NEW h \in Hosts, Stage(h)
    PROVE  CredentialsInv'
  BY CredentialsAssumption
     DEF CredentialsInv, TypeOK, Kept, Placed, Carried, Hosts, Steps,
         Ended, Checked, Tree, NoTree, NoKey, Keys, Goto, Stage

(* One more file. *)
LEMMA WriteFileInv ==
    ASSUME CredentialsInv, NEW h \in Hosts, WriteFile(h)
    PROVE  CredentialsInv'
  BY CredentialsAssumption
     DEF CredentialsInv, TypeOK, Kept, Placed, Carried, Hosts, Steps,
         Ended, Checked, Tree, NoTree, NoKey, Keys, Goto, WriteFile

(* The entries below the tree are synced. *)
LEMMA SyncTreeInv ==
    ASSUME CredentialsInv, NEW h \in Hosts, SyncTree(h)
    PROVE  CredentialsInv'
  <1>1. tree[h] \in Tree /\ [tree[h] EXCEPT !.synced = TRUE] \in Tree
    BY DEF CredentialsInv, TypeOK, Tree
  <1>2. TypeOK'
    BY <1>1 DEF CredentialsInv, TypeOK, SyncTree, Goto, Steps, Ended
  <1>3. Kept' /\ Carried'
    BY <1>1
       DEF CredentialsInv, TypeOK, Kept, Carried, SyncTree, Goto, Hosts, Ended, Checked, Tree
  <1>4. Placed'
    BY <1>1 DEF CredentialsInv, TypeOK, Placed, SyncTree, Goto, Hosts, Checked, Tree
  <1>. QED
    BY <1>2, <1>3, <1>4 DEF CredentialsInv

(* The tree that is put in place has been synced. *)
LEMMA RenameInv ==
    ASSUME CredentialsInv, NEW h \in Hosts, Rename(h)
    PROVE  CredentialsInv'
  BY CredentialsAssumption
     DEF CredentialsInv, TypeOK, Kept, Placed, Carried, Hosts, Steps,
         Ended, Checked, Tree, NoTree, NoKey, Keys, Goto, Rename

(* The entry of the tree is synced. *)
LEMMA SyncBaseInv ==
    ASSUME CredentialsInv, NEW h \in Hosts, SyncBase(h)
    PROVE  CredentialsInv'
  BY CredentialsAssumption
     DEF CredentialsInv, TypeOK, Kept, Placed, Carried, Hosts, Steps,
         Ended, Checked, Tree, NoTree, NoKey, Keys, Goto, SyncBase

(* Only a whole tree, with the key that was read, gets on. *)
LEMMA CheckInv ==
    ASSUME CredentialsInv, NEW h \in Hosts, Check(h)
    PROVE  CredentialsInv'
  BY CredentialsAssumption
     DEF CredentialsInv, TypeOK, Kept, Placed, Carried, Hosts, Steps,
         Ended, Checked, Tree, NoTree, NoKey, Keys, Goto, Check, Complete

(* The marker says nothing of the keys. *)
LEMMA CreateMarkerInv ==
    ASSUME CredentialsInv, NEW h \in Hosts, CreateMarker(h)
    PROVE  CredentialsInv'
  BY CredentialsAssumption
     DEF CredentialsInv, TypeOK, Kept, Placed, Carried, Hosts, Steps,
         Ended, Checked, Tree, NoTree, NoKey, Keys, Goto, CreateMarker

(* The marker says nothing of the keys. *)
LEMMA FillMarkerInv ==
    ASSUME CredentialsInv, NEW h \in Hosts, FillMarker(h)
    PROVE  CredentialsInv'
  BY CredentialsAssumption
     DEF CredentialsInv, TypeOK, Kept, Placed, Carried, Hosts, Steps,
         Ended, Checked, Tree, NoTree, NoKey, Keys, Goto, FillMarker

(* The unit is active with a tree that was checked. *)
LEMMA VerifyInv ==
    ASSUME CredentialsInv, NEW h \in Hosts, Verify(h)
    PROVE  CredentialsInv'
  BY CredentialsAssumption
     DEF CredentialsInv, TypeOK, Kept, Placed, Carried, Hosts, Steps,
         Ended, Checked, Tree, NoTree, NoKey, Keys, Goto, Verify

(* Knot is started with the key it was started with before. *)
LEMMA StartKnotInv ==
    ASSUME CredentialsInv, NEW h \in Hosts, StartKnot(h)
    PROVE  CredentialsInv'
  BY CredentialsAssumption
     DEF CredentialsInv, TypeOK, Kept, Placed, Carried, Hosts, Steps,
         Ended, Checked, Tree, NoTree, NoKey, Keys, Goto, StartKnot

(* The operator clears only what was never used. *)
LEMMA RecoverInv ==
    ASSUME CredentialsInv, NEW h \in Hosts, Recover(h)
    PROVE  CredentialsInv'
  BY CredentialsAssumption
     DEF CredentialsInv, TypeOK, Kept, Placed, Carried, Hosts, Steps,
         Ended, Checked, Tree, NoTree, NoKey, Keys, Goto, Recover,
         BaseEmpty

(* DNS data without credentials. *)
LEMMA LoseBaseInv ==
    ASSUME CredentialsInv, NEW h \in Hosts, LoseBase(h)
    PROVE  CredentialsInv'
  BY CredentialsAssumption
     DEF CredentialsInv, TypeOK, Kept, Placed, Carried, Hosts, Steps,
         Ended, Checked, Tree, NoTree, NoKey, Keys, Goto, LoseBase

(* A script that is stopped leaves the disk as it is. *)
LEMMA StopInv ==
    ASSUME CredentialsInv, NEW h \in Hosts, Stop(h)
    PROVE  CredentialsInv'
  BY CredentialsAssumption
     DEF CredentialsInv, TypeOK, Kept, Placed, Carried, Hosts, Steps,
         Ended, Checked, Tree, NoTree, NoKey, Keys, Goto, Stop

(* No power failure puts a tree in place. *)
LEMMA PowerFailureInv ==
    ASSUME CredentialsInv, NEW h \in Hosts, PowerFailure(h)
    PROVE  CredentialsInv'
  <1>1. PICK t \in Survivors(h) : tree' = [tree EXCEPT ![h] = [t EXCEPT !.synced = TRUE]]
    BY DEF PowerFailure
  <1>2. PICK m \in {"none", marker[h]} : marker' = [marker EXCEPT ![h] = m]
    BY DEF PowerFailure
  <1>3. tree[h] \in Tree
    BY DEF CredentialsInv, TypeOK
  <1>4. t \in Tree /\ (t.place = "final" => tree[h].place = "final" /\ t.key = tree[h].key)
    <2>1. ASSUME NEW n \in 0 .. tree[h].files
          PROVE  [tree[h] EXCEPT !.files = n] \in Tree
      BY <1>3, CredentialsAssumption DEF Tree
    <2>2. NoTree \in Tree /\ NoTree.place # "final"
      BY CredentialsAssumption DEF Tree, NoTree, NoKey, Keys
    <2>. QED
      BY <1>3, <2>1, <2>2 DEF Survivors, Tree
  <1>5. [t EXCEPT !.synced = TRUE] \in Tree
    BY <1>4 DEF Tree
  <1>6. TypeOK'
    BY <1>1, <1>2, <1>5
       DEF CredentialsInv, TypeOK, PowerFailure, Goto, Steps, Ended
  <1>7. Kept' /\ Carried'
    BY <1>1, <1>4
       DEF CredentialsInv, TypeOK, Kept, Carried, PowerFailure, Goto, Hosts, Ended, Checked,
           Tree
  <1>8. Placed'
    BY <1>1, <1>4
       DEF CredentialsInv, TypeOK, Placed, PowerFailure, Goto, Hosts, Checked, Tree
  <1>. QED
    BY <1>6, <1>7, <1>8 DEF CredentialsInv

(* The operator takes the key the primary has used. *)
LEMMA HandoffInv ==
    ASSUME CredentialsInv, Handoff
    PROVE  CredentialsInv'
  BY CredentialsAssumption
     DEF CredentialsInv, TypeOK, Kept, Placed, Carried, Hosts, Ended, Checked, Tree, NoKey,
         Keys, Handoff

(* Every step keeps the invariant. *)
LEMMA StepInv == CredentialsInv /\ [Next]_vars => CredentialsInv'
  <1>. SUFFICES ASSUME CredentialsInv, [Next]_vars PROVE CredentialsInv'
    OBVIOUS
  <1>1. ASSUME NEW h \in Hosts, Main(h) PROVE CredentialsInv'
    BY <1>1, StartInv, LookInv, StageInv, WriteFileInv, SyncTreeInv, RenameInv, SyncBaseInv,
       CheckInv, CreateMarkerInv, FillMarkerInv, VerifyInv
       DEF Main
  <1>2. CASE UNCHANGED vars
    BY <1>2 DEF vars, CredentialsInv, TypeOK, Kept, Placed, Carried
  <1>. QED
    BY <1>1, <1>2, StartKnotInv, RecoverInv, LoseBaseInv, StopInv, PowerFailureInv, HandoffInv
       DEF Next

(* The state is always well typed: in particular every key that is used was *)
(* drawn by the primary.                                                    *)
THEOREM CredentialsTyped == Spec => []TypeOK
  <1>1. CredentialsInv => TypeOK
    BY DEF CredentialsInv
  <1>. QED
    BY <1>1, InitInv, StepInv, PTL DEF Spec

(* No host is ever given a second key, after any number of kills, power     *)
(* failures, recoveries and losses (the refusals of lan-host-credentials.py *)
(* to initialize beside DNS data or a partial attempt).                     *)
THEOREM KeysNeverReplaced == Spec => []OneKeyEver
  <1>1. CredentialsInv => OneKeyEver
    <2>. SUFFICES ASSUME CredentialsInv, NEW h \in Hosts PROVE Cardinality(given[h]) <= 1
      BY DEF OneKeyEver
    <2>1. CASE given[h] = {}
      BY <2>1, FS_EmptySet
    <2>2. CASE given[h] # {}
      <3>1. PICK k \in Keys : given[h] = {k}
        BY <2>2 DEF CredentialsInv, Kept
      <3>2. Cardinality({k}) = 1
        BY FS_Singleton
      <3>. QED
        BY <3>1, <3>2
    <2>. QED
      BY <2>1, <2>2
  <1>. QED
    BY <1>1, InitInv, StepInv, PTL DEF Spec

(* The tree of an active unit survives every power failure whole, unless    *)
(* the script that put it in place was stopped before it synced the base    *)
(* (the order of the fsync calls around the rename).                        *)
THEOREM ReleasedTreesDurable == Spec => []ReleasedDurable
  <1>1. CredentialsInv => ReleasedDurable
    <2>. SUFFICES ASSUME CredentialsInv, NEW h \in Hosts, step[h] = "active", ~cut[h],
                         NEW t \in Survivors(h)
                  PROVE  t.place = "final" /\ t.files = Files /\ t.key = tree[h].key
      BY DEF ReleasedDurable
    <2>1. fixed[h] /\ tree[h].synced /\ tree[h].place = "final" /\ tree[h].files = Files
      BY DEF CredentialsInv, Placed, Checked
    <2>2. t = tree[h]
      BY <2>1 DEF Survivors
    <2>. QED
      BY <2>1, <2>2
  <1>. QED
    BY <1>1, InitInv, StepInv, PTL DEF Spec

(* Whenever both units are active both hosts have the same transfer key:    *)
(* the secondary's is the imported one, that is the only one the primary    *)
(* was ever started with, and that is the one in the primary's tree.        *)
THEOREM TransferKeysAlwaysAgree == Spec => []TransferKeysAgree
  <1>1. CredentialsInv => TransferKeysAgree
    <2>. SUFFICES ASSUME CredentialsInv, step["primary"] = "active",
                         step["secondary"] = "active"
                  PROVE  tree["primary"].key = tree["secondary"].key
      BY DEF TransferKeysAgree
    <2>1. tree["secondary"].key = imported /\ given["primary"] = {imported}
      BY DEF CredentialsInv, Carried, Checked, Ended
    <2>2. given["primary"] = {tree["primary"].key}
      BY <2>1 DEF CredentialsInv, Kept, Placed, Checked, Hosts
    <2>. QED
      BY <2>1, <2>2
  <1>. QED
    BY <1>1, InitInv, StepInv, PTL DEF Spec
============================================================================
