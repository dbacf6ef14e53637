------------------------ MODULE VaultExplorer_proof ------------------------
(* What the Vault tab shows once the listing it asked for last has landed,   *)
(* for every set of names and however many requests are under way.           *)
(*                                                                           *)
(* The properties speak of the state in which the newest listing has landed. *)
(* They are inductive together with what holds while it is under way: it was *)
(* asked for the path the controller is at, and, once it is served, it is as *)
(* late as everything acknowledged - because every acknowledgement asks for  *)
(* a listing of its own, which becomes the newest.                           *)
(*                                                                           *)
(* The second half is about the tree of the server, which every operation    *)
(* keeps whole; most of it are facts about paths and their prefixes.         *)
EXTENDS VaultExplorer, SequenceTheorems, TLAPS

(* Versions only grow, so no request carries one the tree has not reached.   *)
VersionsOK ==
    /\ version \in Nat /\ acked \in Nat /\ acked <= version
    /\ \A s \in Slots : calls[s].left \in Nat /\ calls[s].left <= version

SlotsOK ==
    /\ DOMAIN calls = Slots /\ calls = [s \in Slots |-> calls[s]]
    /\ newest \in Slots \cup {NoSlot}

(* The newest listing while it is under way *)
NewestOK ==
    newest \in Slots =>
        /\ calls[newest].op = "list" /\ calls[newest].path = current
        /\ calls[newest].answer = "ok" =>
               /\ calls[newest].found.of = current
               /\ calls[newest].found.version >= acked

SettledOK == CrumbsTell /\ AcknowledgedIsListed

IInv == VersionsOK /\ SlotsOK /\ NewestOK /\ SettledOK

(* No slot is the number that stands for none. *)
LEMMA SlotIsReal == \A s \in Slots : s # NoSlot
BY VaultAssumption DEF Slots, NoSlot

(* A slot is taken only when it is free. *)
LEMMA FreeSlotIsFree == ASSUME Room PROVE FreeSlot \in Slots /\ Free(FreeSlot)
BY DEF Room, FreeSlot

(* The later of two versions is one of them, and no earlier than either.     *)
LEMMA LaterBounds ==
    ASSUME NEW a \in Nat, NEW b \in Nat
    PROVE  /\ Later(a, b) \in {a, b}
           /\ Later(a, b) >= a /\ Later(a, b) >= b
BY DEF Later

(* The first listing is still to be asked for. *)
THEOREM InitHolds == Init => IInv
<1> SUFFICES ASSUME Init PROVE IInv
  OBVIOUS
<1>1. calls = [s \in Slots |-> Idle]
  BY DEF Init
<1>2. \A s \in Slots : calls[s].left = 0
  BY <1>1 DEF Idle, Call
<1>3. VersionsOK
  BY <1>2 DEF Init, VersionsOK
<1>4. SlotsOK
  BY <1>1 DEF Init, SlotsOK
<1>5. NewestOK
  BY SlotIsReal DEF Init, NewestOK
<1>6. SettledOK
  BY DEF Init, SettledOK, CrumbsTell, AcknowledgedIsListed
<1> QED BY <1>3, <1>4, <1>5, <1>6 DEF IInv

(* Asking for a listing in a slot that is not the newest one's: the pane is  *)
(* blank, and the request is for the path the controller is now at.          *)
LEMMA LoadKeeps ==
    ASSUME IInv, NEW path, NEW s \in Slots, loadVault(path, s), UNCHANGED version,
           acked' \in Nat, acked' <= version
    PROVE  IInv'
<1>1. calls' = [calls EXCEPT ![s] = Call("list", path, "")]
  BY DEF loadVault
<1>2. DOMAIN calls' = Slots /\ calls' = [t \in Slots |-> calls'[t]]
  BY <1>1 DEF IInv, SlotsOK
<1>3. /\ calls'[s].op = "list" /\ calls'[s].path = path
      /\ calls'[s].answer = "none" /\ calls'[s].left = 0
  <2> DEFINE c == Call("list", path, "")
  <2>1. c.op = "list" /\ c.path = path /\ c.answer = "none" /\ c.left = 0
    BY DEF Call
  <2> HIDE DEF c
  <2>2. calls'[s] = c
    BY <1>1 DEF IInv, SlotsOK, c
  <2> QED BY <2>1, <2>2
<1>4. \A t \in Slots \ {s} : calls'[t] = calls[t]
  BY <1>1 DEF IInv, SlotsOK
<1>5. newest' = s /\ current' = path /\ pane' = "loading"
  BY DEF loadVault
<1>6. VersionsOK'
  <2>1. \A t \in Slots : calls'[t].left \in Nat /\ calls'[t].left <= version
    BY <1>3, <1>4 DEF IInv, VersionsOK
  <2> QED BY <2>1 DEF IInv, VersionsOK
<1>7. SlotsOK'
  BY <1>2, <1>5 DEF SlotsOK
<1>8. NewestOK'
  BY <1>3, <1>5 DEF NewestOK
<1>9. SettledOK'
  BY <1>5 DEF SettledOK, CrumbsTell, AcknowledgedIsListed
<1> QED BY <1>6, <1>7, <1>8, <1>9 DEF IInv

(* A step that changes one slot, other than the newest one's, and none of    *)
(* what is shown.                                                            *)
LEMMA OtherSlotKeeps ==
    ASSUME IInv, NEW s \in Slots, s # newest, NEW c, c.left \in Nat, c.left <= version',
           calls' = [calls EXCEPT ![s] = c], version' \in Nat, version <= version',
           UNCHANGED <<view, newest, acked>>
    PROVE  IInv'
<1>1. DOMAIN calls' = Slots /\ calls' = [t \in Slots |-> calls'[t]]
  BY DEF IInv, SlotsOK
<1>2. calls'[s] = c /\ \A t \in Slots \ {s} : calls'[t] = calls[t]
  BY DEF IInv, SlotsOK
<1>3. VersionsOK'
  <2>1. \A t \in Slots : calls'[t].left \in Nat /\ calls'[t].left <= version'
    BY <1>2 DEF IInv, VersionsOK
  <2> QED BY <2>1 DEF IInv, VersionsOK
<1>4. SlotsOK' /\ NewestOK'
  BY <1>1, <1>2 DEF IInv, SlotsOK, NewestOK, view
<1>5. SettledOK'
  BY DEF IInv, SettledOK, CrumbsTell, AcknowledgedIsListed, view
<1> QED BY <1>3, <1>4, <1>5 DEF IInv

(* Opening a folder, from the navigation, a crumb, a row or one level up     *)
LEMMA OpenKeeps == ASSUME IInv, NEW path, Open(path) PROVE IInv'
<1>1. FreeSlot \in Slots
  BY FreeSlotIsFree DEF Open
<1>2. loadVault(path, FreeSlot) /\ version' = version /\ acked' = acked
  BY DEF Open, tree
<1>3. acked' \in Nat /\ acked' <= version
  BY <1>2 DEF IInv, VersionsOK
<1> QED BY <1>1, <1>2, <1>3, LoadKeeps

(* Sending an operation *)
LEMMA SendKeeps == ASSUME IInv, NEW op, NEW path, NEW name, Send(op, path, name) PROVE IInv'
<1> DEFINE c == Call(op, path, name)
<1>1. FreeSlot \in Slots /\ Free(FreeSlot)
  BY FreeSlotIsFree DEF Send
<1>2. FreeSlot # newest
  BY <1>1 DEF IInv, NewestOK, Free
<1>3. c.left = 0 /\ c.left \in Nat /\ c.left <= version
  BY DEF Call, IInv, VersionsOK
<1>4. calls' = [calls EXCEPT ![FreeSlot] = c] /\ version' = version
      /\ UNCHANGED <<view, newest, acked>>
  BY DEF Send, tree
<1>5. version' \in Nat /\ version <= version' /\ c.left <= version'
  BY <1>3, <1>4 DEF IInv, VersionsOK
<1> HIDE DEF c
<1> QED BY <1>1, <1>2, <1>3, <1>4, <1>5, OtherSlotKeeps

(* The user's clicks *)
LEMMA ClickKeeps == ASSUME IInv, Click PROVE IInv'
<1>1. CASE OpenTab
  BY <1>1, OpenKeeps DEF OpenTab
<1>2. CASE OpenCrumb
  BY <1>2, OpenKeeps DEF OpenCrumb
<1>3. CASE OpenRow
  BY <1>3, OpenKeeps DEF OpenRow
<1>4. CASE navigateVaultUp
  BY <1>4, OpenKeeps DEF navigateVaultUp
<1>5. CASE promptNewFolder
  BY <1>5, SendKeeps DEF promptNewFolder
<1>6. CASE handleVaultUpload
  BY <1>6, SendKeeps DEF handleVaultUpload
<1>7. CASE promptRename
  BY <1>7, SendKeeps DEF promptRename
<1>8. CASE confirmDelete
  BY <1>8, SendKeeps DEF confirmDelete
<1>9. CASE openChooser \/ dismissChooser
  BY <1>9 DEF openChooser, dismissChooser, tree, view, IInv, VersionsOK, SlotsOK, NewestOK,
              SettledOK, CrumbsTell, AcknowledgedIsListed
<1> QED BY <1>1, <1>2, <1>3, <1>4, <1>5, <1>6, <1>7, <1>8, <1>9 DEF Click, ClickPage

(* The server performs an operation: its slot learns the version it left.    *)
LEMMA ServeOperationKeeps ==
    ASSUME IInv, NEW s \in Slots, ServeOperation(s) PROVE IInv'
<1> DEFINE c == Replied(calls[s], "ok", NoListing, version + 1)
<1>1. calls[s].op # "list"
  BY DEF ServeOperation, Perform
<1>2. s # newest
  BY <1>1 DEF IInv, NewestOK
<1>3. version' = version + 1
  BY DEF ServeOperation, Changed
<1>4. calls' = [calls EXCEPT ![s] = c] /\ UNCHANGED <<view, newest, acked>>
  BY DEF ServeOperation
<1>5. version' \in Nat /\ version <= version' /\ c.left \in Nat /\ c.left <= version'
  BY <1>3 DEF IInv, VersionsOK, Replied
<1> HIDE DEF c
<1> QED BY <1>2, <1>4, <1>5, OtherSlotKeeps

(* A slot that stays what it is about, and whose answer, when it is the      *)
(* newest one's, is as late as anything acknowledged                         *)
LEMMA AnswerKeeps ==
    ASSUME IInv, NEW s \in Slots, NEW c, c.op = calls[s].op, c.path = calls[s].path,
           calls' = [calls EXCEPT ![s] = c], c.left = 0,
           c.answer = "ok" => c.found.of = calls[s].path /\ c.found.version = version,
           UNCHANGED <<tree, view, newest, acked>>
    PROVE  IInv'
<1>1. DOMAIN calls' = Slots /\ calls' = [t \in Slots |-> calls'[t]]
  BY DEF IInv, SlotsOK
<1>2. calls'[s] = c /\ \A t \in Slots \ {s} : calls'[t] = calls[t]
  BY DEF IInv, SlotsOK
<1>3. VersionsOK'
  <2>1. \A t \in Slots : calls'[t].left \in Nat /\ calls'[t].left <= version
    BY <1>2 DEF IInv, VersionsOK
  <2> QED BY <2>1 DEF IInv, VersionsOK, tree
<1>4. SlotsOK'
  BY <1>1 DEF IInv, SlotsOK
<1>5. NewestOK'
  <2>1. CASE newest = s
    BY <2>1, <1>2 DEF IInv, NewestOK, VersionsOK, view
  <2>2. CASE newest # s
    BY <2>2, <1>2 DEF IInv, NewestOK, view
  <2> QED BY <2>1, <2>2
<1>6. SettledOK'
  BY DEF IInv, SettledOK, CrumbsTell, AcknowledgedIsListed, view
<1> QED BY <1>3, <1>4, <1>5, <1>6 DEF IInv

(* The server takes a listing. *)
LEMMA ServeListKeeps == ASSUME IInv, NEW s \in Slots, ServeList(s) PROVE IInv'
<1> DEFINE c == Replied(calls[s], "ok", list_files(calls[s].path), 0)
<1>1. calls' = [calls EXCEPT ![s] = c] /\ UNCHANGED <<tree, view, newest, acked>>
  BY DEF ServeList
<1>2. c.op = calls[s].op /\ c.path = calls[s].path /\ c.left = 0
  BY DEF Replied
<1>3. c.found.of = calls[s].path /\ c.found.version = version
  BY DEF Replied, list_files
<1> HIDE DEF c
<1> QED BY <1>1, <1>2, <1>3, AnswerKeeps

(* A request is refused or lost. *)
LEMMA FailKeeps == ASSUME IInv, NEW s \in Slots, Fail(s) PROVE IInv'
<1> DEFINE c == Replied(calls[s], "failed", NoListing, 0)
<1>1. calls' = [calls EXCEPT ![s] = c] /\ UNCHANGED <<tree, view, newest, acked>>
  BY DEF Fail
<1>2. c.op = calls[s].op /\ c.path = calls[s].path /\ c.left = 0 /\ c.answer # "ok"
  BY DEF Replied
<1> HIDE DEF c
<1> QED BY <1>1, <1>2, AnswerKeeps

(* Others change the tree: a listing that is on its way, or shown, does not  *)
(* become earlier than what was acknowledged.                                *)
LEMMA OthersKeep == ASSUME IInv, OthersChange PROVE IInv'
<1>1. version' = version + 1 /\ UNCHANGED <<view, calls, newest, acked>>
  BY DEF OthersChange, Changed
<1>2. VersionsOK'
  BY <1>1 DEF IInv, VersionsOK
<1>3. SlotsOK' /\ NewestOK' /\ SettledOK'
  BY <1>1 DEF IInv, SlotsOK, NewestOK, SettledOK, CrumbsTell, AcknowledgedIsListed, view
<1> QED BY <1>2, <1>3 DEF IInv

(* The slot s is given back; the newest listing, if it is another one's, is  *)
(* still under way.                                                          *)
LEMMA GiveBack ==
    ASSUME IInv, NEW s \in Slots, calls' = [calls EXCEPT ![s] = Idle],
           UNCHANGED <<tree, current, acked>>,
           (newest' = newest /\ newest # s) \/ newest' = NoSlot
    PROVE  VersionsOK' /\ SlotsOK' /\ NewestOK'
<1>1. DOMAIN calls' = Slots /\ calls' = [t \in Slots |-> calls'[t]]
  BY DEF IInv, SlotsOK
<1>2. calls'[s].left = 0 /\ \A t \in Slots \ {s} : calls'[t] = calls[t]
  BY DEF IInv, SlotsOK, Idle, Call
<1>3. VersionsOK'
  <2>1. \A t \in Slots : calls'[t].left \in Nat /\ calls'[t].left <= version
    BY <1>2 DEF IInv, VersionsOK
  <2> QED BY <2>1 DEF IInv, VersionsOK, tree
<1>4. SlotsOK'
  BY <1>1 DEF IInv, SlotsOK
<1>5. NewestOK'
  BY <1>2, SlotIsReal DEF IInv, NewestOK
<1> QED BY <1>3, <1>4, <1>5

(* A listing lands. The newest one shows the path the controller is at, as   *)
(* late as anything acknowledged; another one marks the pane as stale.       *)
LEMMA ListAnsweredKeeps == ASSUME IInv, NEW s \in Slots, ListAnswered(s) PROVE IInv'
<1>1. VersionsOK' /\ SlotsOK' /\ NewestOK'
  BY GiveBack DEF ListAnswered
<1>2. SettledOK'
  <2>1. CASE calls[s].answer = "ok" /\ s = newest
    BY <2>1 DEF ListAnswered, IInv, NewestOK, SettledOK, CrumbsTell, AcknowledgedIsListed
  <2>2. CASE s # newest
    BY <2>2 DEF ListAnswered, SettledOK, CrumbsTell, AcknowledgedIsListed
  <2>3. CASE calls[s].answer = "failed"
    BY <2>3 DEF ListAnswered, SettledOK, CrumbsTell, AcknowledgedIsListed
  <2> QED BY <2>1, <2>2, <2>3 DEF ListAnswered
<1> QED BY <1>1, <1>2 DEF IInv

(* An operation is acknowledged: its slot asks for a listing, which is the   *)
(* newest from now on.                                                       *)
LEMMA OperationDoneKeeps == ASSUME IInv, NEW s \in Slots, OperationDone(s) PROVE IInv'
<1>1. loadVault(current, s) /\ version' = version /\ acked' = Later(acked, calls[s].left)
  BY DEF OperationDone, Reload, tree
<1>2. acked' \in Nat /\ acked' <= version
  BY <1>1, LaterBounds DEF IInv, VersionsOK
<1> QED BY <1>1, <1>2, LoadKeeps

(* An operation failed: the listing stays as it is.                          *)
LEMMA OperationFailedKeeps == ASSUME IInv, NEW s \in Slots, OperationFailed(s) PROVE IInv'
<1>1. s # newest
  BY DEF OperationFailed, IInv, NewestOK
<1>2. VersionsOK' /\ SlotsOK' /\ NewestOK'
  BY <1>1, GiveBack DEF OperationFailed, view
<1>3. SettledOK'
  BY DEF OperationFailed, view, IInv, SettledOK, CrumbsTell, AcknowledgedIsListed
<1> QED BY <1>2, <1>3 DEF IInv

(* Every step keeps the invariant. *)
THEOREM StepHolds == IInv /\ [Next]_vars => IInv'
<1> SUFFICES ASSUME IInv, [Next]_vars PROVE IInv'
  OBVIOUS
<1>1. CASE Click
  BY <1>1, ClickKeeps
<1>2. CASE OthersChange
  BY <1>2, OthersKeep
<1>3. CASE Serve
  BY <1>3, ServeOperationKeeps, ServeListKeeps, FailKeeps DEF Serve
<1>4. CASE Answer
  BY <1>4, ListAnsweredKeeps, OperationDoneKeeps, OperationFailedKeeps DEF Answer
<1>5. CASE UNCHANGED vars
  BY <1>5 DEF vars, tree, view, IInv, VersionsOK, SlotsOK, NewestOK, SettledOK,
              CrumbsTell, AcknowledgedIsListed
<1> QED BY <1>1, <1>2, <1>3, <1>4, <1>5 DEF Next

(* The inductive invariant holds in every behaviour. *)
THEOREM Inductive == Spec => []IInv
BY InitHolds, StepHolds, PTL DEF Spec

(* Once the listing asked for last has landed, the crumbs name the folder    *)
(* whose rows are shown, unless an earlier listing landed after it.          *)
THEOREM CrumbsTruthful == Spec => []CrumbsTell
<1>1. IInv => CrumbsTell
  BY DEF IInv, SettledOK
<1> QED BY <1>1, Inductive, PTL

(* By then what was acknowledged to the user is in what he sees, unless an   *)
(* earlier listing landed after it.                                          *)
THEOREM AcknowledgedShown == Spec => []AcknowledgedIsListed
<1>1. IInv => AcknowledgedIsListed
  BY DEF IInv, SettledOK
<1> QED BY <1>1, Inductive, PTL

-----------------------------------------------------------------------------
(* Paths and their prefixes *)

(* A path is a sequence of names that is not too long. *)
LEMMA PathIsSeq ==
    \A p : p \in Paths <=> p \in Seq(Names) /\ Len(p) <= MaxDepth
<1>1. ASSUME NEW p \in Paths PROVE p \in Seq(Names) /\ Len(p) <= MaxDepth
  <2>1. PICK n \in 0 .. MaxDepth : p \in [1 .. n -> Names]
    BY <1>1 DEF Paths
  <2>2. n \in Nat /\ n <= MaxDepth
    BY <2>1, VaultAssumption
  <2>3. p \in Seq(Names) /\ Len(p) = n
    BY <2>1, <2>2
  <2> QED BY <2>2, <2>3
<1>2. ASSUME NEW p \in Seq(Names), Len(p) <= MaxDepth PROVE p \in Paths
  <2>1. Len(p) \in 0 .. MaxDepth /\ p \in [1 .. Len(p) -> Names]
    BY <1>2, LenProperties, VaultAssumption
  <2> QED BY <2>1 DEF Paths
<1> QED BY <1>1, <1>2

(* Two paths of the same names are the same. *)
LEMMA PathsEqual ==
    ASSUME NEW p \in Paths, NEW q \in Paths, Len(p) = Len(q),
           \A i \in 1 .. Len(p) : p[i] = q[i]
    PROVE  p = q
BY PathIsSeq, SeqEqual

(* A prefix of a path is a path. *)
LEMMA PrefixIsPath ==
    ASSUME NEW p \in Paths, NEW n \in 0 .. Len(p)
    PROVE  /\ SubSeq(p, 1, n) \in Paths
           /\ Len(SubSeq(p, 1, n)) = n
           /\ \A i \in 1 .. n : SubSeq(p, 1, n)[i] = p[i]
<1>1. p \in Seq(Names) /\ Len(p) \in Nat /\ Len(p) <= MaxDepth
  BY PathIsSeq, LenProperties
<1>2. n \in Int /\ n <= Len(p) /\ \A i \in 1 .. n : p[i] \in Names
  BY <1>1, ElementOfSeq
<1>3. /\ SubSeq(p, 1, n) \in Seq(Names)
      /\ Len(SubSeq(p, 1, n)) = IF 1 <= n THEN n - 1 + 1 ELSE 0
      /\ \A i \in 1 .. n - 1 + 1 : SubSeq(p, 1, n)[i] = p[1 + i - 1]
  BY <1>2, SubSeqProperties
<1>4. n \in Nat /\ MaxDepth \in Nat /\ n <= MaxDepth
  BY <1>1, <1>2, VaultAssumption
<1>5. Len(SubSeq(p, 1, n)) = n
  BY <1>3, <1>4
<1>6. \A i \in 1 .. n : SubSeq(p, 1, n)[i] = p[i]
  BY <1>3, <1>4
<1>7. SubSeq(p, 1, n) \in Paths
  BY <1>3, <1>4, <1>5, PathIsSeq
<1> QED BY <1>5, <1>6, <1>7

(* The prefix of a prefix is a prefix. *)
LEMMA PrefixOfPrefix ==
    ASSUME NEW p \in Paths, NEW n \in 0 .. Len(p), NEW m \in 0 .. n
    PROVE  SubSeq(SubSeq(p, 1, n), 1, m) = SubSeq(p, 1, m)
<1> DEFINE a == SubSeq(p, 1, n)
           b == SubSeq(p, 1, m)
<1>1. Len(p) \in Nat
  BY PathIsSeq, LenProperties
<1>2. m \in 0 .. Len(p) /\ m \in Nat /\ n \in Nat /\ m <= n
  BY <1>1
<1>3. a \in Paths /\ Len(a) = n /\ \A i \in 1 .. n : a[i] = p[i]
  BY PrefixIsPath
<1>4. b \in Paths /\ Len(b) = m /\ \A i \in 1 .. m : b[i] = p[i]
  BY <1>2, PrefixIsPath
<1> HIDE DEF a, b
<1>5. /\ SubSeq(a, 1, m) \in Paths /\ Len(SubSeq(a, 1, m)) = m
      /\ \A i \in 1 .. m : SubSeq(a, 1, m)[i] = a[i]
  BY <1>3, PrefixIsPath
<1>6. \A i \in 1 .. m : SubSeq(a, 1, m)[i] = b[i]
  BY <1>2, <1>3, <1>4, <1>5
<1>7. SubSeq(a, 1, m) = b
  BY <1>4, <1>5, <1>6, PathsEqual
<1> QED BY <1>7 DEF a, b

(* A path is the longest of its prefixes. *)
LEMMA FullPrefix == \A p \in Paths : SubSeq(p, 1, Len(p)) = p
BY PathIsSeq, SubSeqFull

(* The empty path is the one path without a name. *)
LEMMA RootIsPath == Root \in Paths /\ Len(Root) = 0 /\ \A p \in Paths : Len(p) = 0 => p = Root
<1>1. << >> \in Seq(Names) /\ Len(<< >>) = 0
  BY EmptySeq
<1>2. Root \in Paths /\ Len(Root) = 0
  <2>1. 0 <= MaxDepth
    BY VaultAssumption
  <2>2. << >> \in Paths
    BY <1>1, <2>1, PathIsSeq
  <2> QED BY <1>1, <2>2 DEF Root
<1>3. ASSUME NEW p \in Paths, Len(p) = 0 PROVE p = Root
  <2>1. p \in Seq(Names)
    BY PathIsSeq
  <2> QED BY <1>3, <2>1, EmptySeq DEF Root
<1> QED BY <1>2, <1>3

(* The length of a path *)
LEMMA LenOfPath == \A p \in Paths : Len(p) \in Nat /\ Len(p) <= MaxDepth /\ (p # Root => Len(p) >= 1)
BY PathIsSeq, LenProperties, RootIsPath, VaultAssumption

(* The path of an entry without its last name *)
LEMMA ParentIsPath ==
    ASSUME NEW p \in Paths \ {Root}
    PROVE  /\ Parent(p) \in Paths /\ Len(Parent(p)) = Len(p) - 1
           /\ \A i \in 1 .. Len(p) - 1 : Parent(p)[i] = p[i]
<1>1. Len(p) - 1 \in 0 .. Len(p)
  BY LenOfPath
<1> QED BY <1>1, PrefixIsPath DEF Parent

(* The folders an entry lies in, itself included *)
LEMMA AncestorsArePaths ==
    ASSUME NEW p \in Paths
    PROVE  /\ Ancestors(p) \subseteq Paths \ {Root}
           /\ \A a \in Ancestors(p) : Len(a) <= Len(p)
           /\ p # Root => p \in Ancestors(p)
<1>1. Len(p) \in Nat
  BY LenOfPath
<1>2. ASSUME NEW a \in Ancestors(p)
      PROVE  a \in Paths \ {Root} /\ Len(a) <= Len(p)
  <2>1. PICK n \in 1 .. Len(p) : a = SubSeq(p, 1, n)
    BY DEF Ancestors
  <2>2. n \in 0 .. Len(p) /\ n \in Nat /\ n >= 1 /\ n <= Len(p)
    BY <1>1
  <2>3. a \in Paths /\ Len(a) = n
    BY <2>1, <2>2, PrefixIsPath
  <2> QED BY <2>2, <2>3, RootIsPath
<1>3. ASSUME p # Root PROVE p \in Ancestors(p)
  <2>1. Len(p) \in 1 .. Len(p)
    BY <1>1, <1>3, LenOfPath
  <2> QED BY <2>1, FullPrefix DEF Ancestors
<1> QED BY <1>2, <1>3

(* A folder an entry lies in lies itself in folders the entry lies in.       *)
LEMMA AncestorsNest ==
    ASSUME NEW p \in Paths, NEW a \in Ancestors(p)
    PROVE  Ancestors(a) \subseteq Ancestors(p)
<1>1. Len(p) \in Nat
  BY LenOfPath
<1>2. PICK n \in 1 .. Len(p) : a = SubSeq(p, 1, n)
  BY DEF Ancestors
<1>3. n \in 0 .. Len(p) /\ n \in Nat /\ n <= Len(p)
  BY <1>1
<1>4. Len(a) = n
  BY <1>2, <1>3, PrefixIsPath
<1>5. ASSUME NEW m \in 1 .. n PROVE SubSeq(a, 1, m) \in Ancestors(p)
  <2>1. m \in 0 .. n /\ m \in 1 .. Len(p)
    BY <1>1, <1>3
  <2>2. SubSeq(a, 1, m) = SubSeq(p, 1, m)
    BY <1>2, <1>3, <2>1, PrefixOfPrefix
  <2> QED BY <2>1, <2>2 DEF Ancestors
<1> QED BY <1>4, <1>5 DEF Ancestors

(* The ancestors of the parent are the proper prefixes. *)
LEMMA ParentAncestors ==
    ASSUME NEW p \in Paths \ {Root}
    PROVE  Ancestors(Parent(p)) = {SubSeq(p, 1, n) : n \in 1 .. Len(p) - 1}
<1>1. Len(p) \in Nat /\ Len(p) >= 1
  BY LenOfPath
<1>2. Len(Parent(p)) = Len(p) - 1
  BY ParentIsPath
<1>3. ASSUME NEW n \in 1 .. Len(p) - 1
      PROVE  SubSeq(Parent(p), 1, n) = SubSeq(p, 1, n)
  <2>1. Len(p) - 1 \in 0 .. Len(p) /\ n \in 0 .. Len(p) - 1
    BY <1>1
  <2> QED BY <2>1, PrefixOfPrefix DEF Parent
<1> QED BY <1>2, <1>3 DEF Ancestors

(* What the folder of an entry lies in, the entry lies in. *)
LEMMA ParentAncestorsBelong ==
    ASSUME NEW p \in Paths \ {Root}
    PROVE  Ancestors(Parent(p)) \subseteq Ancestors(p)
<1>1. \A n \in 1 .. Len(p) - 1 : n \in 1 .. Len(p)
  BY LenOfPath
<1> QED BY <1>1, ParentAncestors DEF Ancestors

(* Appending a name *)
LEMMA ChildIsPath ==
    ASSUME NEW d \in Paths, Len(d) < MaxDepth, NEW n \in Names
    PROVE  /\ Append(d, n) \in Paths \ {Root} /\ Len(Append(d, n)) = Len(d) + 1
           /\ Parent(Append(d, n)) = d
           /\ \A i \in 1 .. Len(d) : Append(d, n)[i] = d[i]
           /\ Append(d, n)[Len(d) + 1] = n
<1> DEFINE q == Append(d, n)
<1>1. Len(d) \in Nat /\ d \in Seq(Names) /\ MaxDepth \in Nat
  BY LenOfPath, PathIsSeq, VaultAssumption
<1>2. /\ q \in Seq(Names) /\ q # << >> /\ Len(q) = Len(d) + 1
      /\ \A i \in 1 .. Len(d) : q[i] = d[i]
      /\ q[Len(d) + 1] = n
  BY <1>1, AppendProperties
<1> HIDE DEF q
<1>3. q \in Paths \ {Root}
  BY <1>1, <1>2, PathIsSeq DEF Root
<1>4. /\ Parent(q) \in Paths /\ Len(Parent(q)) = Len(q) - 1
      /\ \A i \in 1 .. Len(q) - 1 : Parent(q)[i] = q[i]
  BY <1>3, ParentIsPath
<1>5. Len(Parent(q)) = Len(d) /\ \A i \in 1 .. Len(d) : Parent(q)[i] = d[i]
  BY <1>1, <1>2, <1>4
<1>6. Parent(q) = d
  BY <1>4, <1>5, PathsEqual
<1> QED BY <1>2, <1>3, <1>6 DEF q

(* What lies under a folder begins with its names. *)
LEMMA UnderMeans ==
    ASSUME NEW p \in Paths, NEW d \in Paths
    PROVE  Under(p, d) <=> Len(d) <= Len(p) /\ \A i \in 1 .. Len(d) : p[i] = d[i]
<1>1. Len(p) \in Nat /\ Len(d) \in Nat
  BY LenOfPath
<1>2. ASSUME Len(d) <= Len(p)
      PROVE  SubSeq(p, 1, Len(d)) = d <=> \A i \in 1 .. Len(d) : p[i] = d[i]
  <2> DEFINE a == SubSeq(p, 1, Len(d))
  <2>1. Len(d) \in 0 .. Len(p)
    BY <1>1, <1>2
  <2>2. a \in Paths /\ Len(a) = Len(d) /\ \A i \in 1 .. Len(d) : a[i] = p[i]
    BY <2>1, PrefixIsPath
  <2> HIDE DEF a
  <2>3. a = d <=> \A i \in 1 .. Len(d) : a[i] = d[i]
    BY <2>2, PathsEqual
  <2> QED BY <2>2, <2>3 DEF a
<1> QED BY <1>2 DEF Under

(* What lies under an ancestor of an entry has the entry under it.           *)
LEMMA UnderAncestor ==
    ASSUME NEW t \in Paths, NEW d \in Paths, NEW a \in Ancestors(t), Under(a, d)
    PROVE  Under(t, d)
<1>1. Len(t) \in Nat /\ Len(d) \in Nat
  BY LenOfPath
<1>2. PICK n \in 1 .. Len(t) : a = SubSeq(t, 1, n)
  BY DEF Ancestors
<1>3. n \in 0 .. Len(t) /\ n \in Nat /\ n <= Len(t)
  BY <1>1
<1>4. a \in Paths /\ Len(a) = n /\ \A i \in 1 .. n : a[i] = t[i]
  BY <1>2, <1>3, PrefixIsPath
<1>5. Len(d) <= n /\ \A i \in 1 .. Len(d) : a[i] = d[i]
  BY <1>4, UnderMeans
<1>6. Len(d) <= Len(t) /\ \A i \in 1 .. Len(d) : t[i] = d[i]
  BY <1>1, <1>3, <1>4, <1>5
<1> QED BY <1>6, UnderMeans

(* What lies under a folder, and is not the folder, lies in it.              *)
LEMMA UnderIsIn ==
    ASSUME NEW t \in Paths, NEW d \in Paths \ {Root}, Under(t, d), t # d
    PROVE  t # Root /\ d \in Ancestors(Parent(t))
<1>1. Len(t) \in Nat /\ Len(d) \in Nat /\ Len(d) >= 1 /\ Len(d) <= Len(t)
  BY LenOfPath DEF Under
<1>2. t # Root
  BY <1>1, RootIsPath
<1>3. SubSeq(t, 1, Len(d)) = d
  BY DEF Under
<1>4. Len(d) # Len(t)
  BY <1>3, FullPrefix
<1>5. Len(d) \in 1 .. Len(t) - 1
  BY <1>1, <1>4
<1>6. Ancestors(Parent(t)) = {SubSeq(t, 1, n) : n \in 1 .. Len(t) - 1}
  BY <1>2, ParentAncestors
<1> QED BY <1>2, <1>3, <1>5, <1>6

(* An entry is under itself. *)
LEMMA UnderItself == \A p \in Paths : Under(p, p)
BY LenOfPath, FullPrefix DEF Under

-----------------------------------------------------------------------------
(* Renaming: where a path goes when the entry p becomes q *)
Moved(t, p, q) == IF Under(t, p) THEN q \o SubSeq(t, Len(p) + 1, Len(t)) ELSE t

(* Renaming replaces one name: the last one of the entry renamed, in every   *)
(* path that begins with it.                                                 *)
LEMMA MovedNames ==
    ASSUME NEW p \in Paths \ {Root}, NEW name \in Names, NEW t \in Paths
    PROVE  LET m == Moved(t, p, Append(Parent(p), name))
           IN  /\ m \in Paths /\ Len(m) = Len(t)
               /\ \A i \in 1 .. Len(t) :
                      m[i] = IF Under(t, p) /\ i = Len(p) THEN name ELSE t[i]
<1> DEFINE q == Append(Parent(p), name)
           m == Moved(t, p, q)
<1>1. /\ Len(p) \in Nat /\ Len(p) >= 1 /\ Len(p) <= MaxDepth /\ Len(t) \in Nat
      /\ MaxDepth \in Nat /\ Len(t) <= MaxDepth
  BY LenOfPath, VaultAssumption
<1>2. /\ Parent(p) \in Paths /\ Len(Parent(p)) = Len(p) - 1
      /\ \A i \in 1 .. Len(p) - 1 : Parent(p)[i] = p[i]
  BY ParentIsPath
<1>3. /\ q \in Paths /\ Len(q) = Len(p)
      /\ \A i \in 1 .. Len(p) - 1 : q[i] = p[i]
      /\ q[Len(p)] = name
  <2>1. Len(Parent(p)) < MaxDepth /\ Len(Parent(p)) + 1 = Len(p)
    BY <1>1, <1>2
  <2>2. /\ q \in Paths /\ Len(q) = Len(Parent(p)) + 1
        /\ \A i \in 1 .. Len(Parent(p)) : q[i] = Parent(p)[i]
        /\ q[Len(Parent(p)) + 1] = name
    BY <1>2, <2>1, ChildIsPath
  <2> QED BY <1>2, <2>1, <2>2
<1> HIDE DEF q
<1>4. ASSUME Under(t, p)
      PROVE  /\ m \in Paths /\ Len(m) = Len(t)
             /\ \A i \in 1 .. Len(t) : m[i] = IF i = Len(p) THEN name ELSE t[i]
  <2> DEFINE r == SubSeq(t, Len(p) + 1, Len(t))
  <2>1. Len(p) <= Len(t) /\ \A i \in 1 .. Len(p) : t[i] = p[i]
    BY <1>4, UnderMeans
  <2>2. t \in Seq(Names) /\ q \in Seq(Names)
    BY <1>3, PathIsSeq
  <2>3. /\ r \in Seq(Names) /\ Len(r) = Len(t) - Len(p)
        /\ \A i \in 1 .. Len(t) - Len(p) : r[i] = t[Len(p) + i]
    <3>1. \A i \in Len(p) + 1 .. Len(t) : t[i] \in Names
      <4>1. \A i \in Len(p) + 1 .. Len(t) : i \in 1 .. Len(t)
        BY <1>1
      <4> QED BY <2>2, <4>1, ElementOfSeq
    <3>2. Len(p) + 1 \in Int /\ Len(t) \in Int
      BY <1>1
    <3>3. /\ r \in Seq(Names)
          /\ Len(r) = IF Len(p) + 1 <= Len(t) THEN Len(t) - (Len(p) + 1) + 1 ELSE 0
          /\ \A i \in 1 .. Len(t) - (Len(p) + 1) + 1 : r[i] = t[Len(p) + 1 + i - 1]
      BY <3>1, <3>2, SubSeqProperties
    <3> HIDE DEF r
    <3>4. Len(r) = Len(t) - Len(p)
      BY <1>1, <2>1, <3>3
    <3>5. \A i \in 1 .. Len(t) - Len(p) : r[i] = t[Len(p) + i]
      BY <1>1, <2>1, <3>3
    <3> QED BY <3>3, <3>4, <3>5
  <2> HIDE DEF r
  <2>4. m = q \o r
    BY <1>4 DEF Moved, r
  <2>5. /\ m \in Seq(Names) /\ Len(m) = Len(q) + Len(r)
        /\ \A i \in 1 .. Len(q) + Len(r) : m[i] = IF i <= Len(q) THEN q[i] ELSE r[i - Len(q)]
    <3>1. /\ q \o r \in Seq(Names) /\ Len(q \o r) = Len(q) + Len(r)
          /\ \A i \in 1 .. Len(q) + Len(r) :
                 (q \o r)[i] = IF i <= Len(q) THEN q[i] ELSE r[i - Len(q)]
      BY <2>2, <2>3, ConcatProperties
    <3> HIDE DEF m
    <3> QED BY <2>4, <3>1
  <2> HIDE DEF m
  <2>6. Len(m) = Len(t)
    BY <1>1, <1>3, <2>3, <2>5
  <2>7. m \in Paths
    BY <1>1, <2>5, <2>6, PathIsSeq
  <2>8. ASSUME NEW i \in 1 .. Len(t)
        PROVE  m[i] = IF i = Len(p) THEN name ELSE t[i]
    <3>1. i \in Nat /\ i >= 1 /\ i <= Len(t) /\ i \in 1 .. Len(q) + Len(r)
      BY <1>1, <2>5, <2>6
    <3>2. CASE i < Len(p)
      <4>1. i \in 1 .. Len(p) - 1 /\ i \in 1 .. Len(p) /\ i <= Len(q) /\ i # Len(p)
        BY <1>1, <1>3, <3>1, <3>2
      <4> QED BY <1>3, <2>1, <2>5, <3>1, <4>1
    <3>3. CASE i = Len(p)
      BY <1>1, <1>3, <2>5, <3>1, <3>3
    <3>4. CASE i > Len(p)
      <4>1. ~(i <= Len(q)) /\ i # Len(p)
        BY <1>1, <1>3, <3>1, <3>4
      <4>2. m[i] = r[i - Len(p)]
        BY <1>3, <2>5, <3>1, <4>1
      <4>3. i - Len(p) \in 1 .. Len(t) - Len(p) /\ Len(p) + (i - Len(p)) = i
        BY <1>1, <3>1, <3>4
      <4>4. r[i - Len(p)] = t[i]
        BY <2>3, <4>3
      <4> QED BY <4>1, <4>2, <4>4
    <3> QED BY <1>1, <3>1, <3>2, <3>3, <3>4
  <2> QED BY <2>6, <2>7, <2>8
<1>5. ASSUME ~Under(t, p) PROVE m = t
  BY <1>5 DEF Moved
<1>6. /\ m \in Paths /\ Len(m) = Len(t)
      /\ \A i \in 1 .. Len(t) : m[i] = IF Under(t, p) /\ i = Len(p) THEN name ELSE t[i]
  <2>1. CASE Under(t, p)
    BY <1>4, <2>1
  <2>2. CASE ~Under(t, p)
    BY <1>5, <2>2
  <2> QED BY <2>1, <2>2
<1> QED BY <1>6 DEF q

(* The prefixes of a path move with it. *)
LEMMA MovedPrefix ==
    ASSUME NEW p \in Paths \ {Root}, NEW name \in Names, NEW t \in Paths,
           NEW n \in 1 .. Len(t)
    PROVE  SubSeq(Moved(t, p, Append(Parent(p), name)), 1, n) =
               Moved(SubSeq(t, 1, n), p, Append(Parent(p), name))
<1> DEFINE q == Append(Parent(p), name)
           m == Moved(t, p, q)
           u == SubSeq(t, 1, n)
           v == Moved(u, p, q)
<1>1. Len(p) \in Nat /\ Len(p) >= 1 /\ Len(t) \in Nat /\ n \in 0 .. Len(t) /\ n \in Nat /\ n <= Len(t)
  BY LenOfPath
<1>2. /\ m \in Paths /\ Len(m) = Len(t)
      /\ \A i \in 1 .. Len(t) : m[i] = IF Under(t, p) /\ i = Len(p) THEN name ELSE t[i]
  BY MovedNames
<1>3. u \in Paths /\ Len(u) = n /\ \A i \in 1 .. n : u[i] = t[i]
  BY <1>1, PrefixIsPath
<1> HIDE DEF u
<1>4. /\ v \in Paths /\ Len(v) = n
      /\ \A i \in 1 .. n : v[i] = IF Under(u, p) /\ i = Len(p) THEN name ELSE u[i]
  BY <1>3, MovedNames
<1> HIDE DEF m, v, q
<1>5. /\ SubSeq(m, 1, n) \in Paths /\ Len(SubSeq(m, 1, n)) = n
      /\ \A i \in 1 .. n : SubSeq(m, 1, n)[i] = m[i]
  BY <1>1, <1>2, PrefixIsPath
<1>6. ASSUME Len(p) <= n PROVE Under(u, p) <=> Under(t, p)
  <2>1. \A i \in 1 .. Len(p) : i \in 1 .. n
    BY <1>1, <1>6
  <2>2. (\A i \in 1 .. Len(p) : u[i] = p[i]) <=> (\A i \in 1 .. Len(p) : t[i] = p[i])
    BY <1>3, <2>1
  <2>3. Len(p) <= Len(t)
    BY <1>1, <1>6
  <2> QED BY <1>3, <1>6, <2>2, <2>3, UnderMeans
<1>7. ASSUME NEW i \in 1 .. n PROVE SubSeq(m, 1, n)[i] = v[i]
  <2>1. i \in 1 .. Len(t) /\ i \in Nat /\ i <= n
    BY <1>1
  <2>2. CASE i = Len(p)
    <3>1. Under(u, p) <=> Under(t, p)
      BY <1>1, <1>6, <2>1, <2>2
    <3>2. u[i] = t[i] /\ SubSeq(m, 1, n)[i] = m[i]
      BY <1>3, <1>5
    <3>3. m[i] = IF Under(t, p) THEN name ELSE t[i]
      BY <1>2, <2>1, <2>2
    <3>4. v[i] = IF Under(u, p) THEN name ELSE u[i]
      BY <1>4, <2>2
    <3> QED BY <3>1, <3>2, <3>3, <3>4
  <2>3. CASE i # Len(p)
    BY <1>2, <1>3, <1>4, <1>5, <2>1, <2>3
  <2> QED BY <2>2, <2>3
<1>8. SubSeq(m, 1, n) = v
  BY <1>4, <1>5, <1>7, PathsEqual
<1> QED BY <1>8 DEF m, v, u, q

(* Two paths go to the same place only if one of them stays where the other  *)
(* one goes.                                                                 *)
LEMMA MovedApart ==
    ASSUME NEW p \in Paths \ {Root}, NEW name \in Names, NEW t \in Paths, NEW u \in Paths,
           Moved(t, p, Append(Parent(p), name)) = Moved(u, p, Append(Parent(p), name)),
           ~Under(t, Append(Parent(p), name)), ~Under(u, Append(Parent(p), name))
    PROVE  t = u
<1> DEFINE q == Append(Parent(p), name)
<1>1. Len(p) \in Nat /\ Len(p) >= 1 /\ Len(p) <= MaxDepth
  BY LenOfPath
<1>2. /\ q \in Paths /\ Len(q) = Len(p)
      /\ \A i \in 1 .. Len(p) - 1 : q[i] = p[i]
      /\ q[Len(p)] = name
  <2>1. /\ Parent(p) \in Paths /\ Len(Parent(p)) = Len(p) - 1
        /\ \A i \in 1 .. Len(p) - 1 : Parent(p)[i] = p[i]
    BY ParentIsPath
  <2>2. Len(Parent(p)) < MaxDepth /\ Len(Parent(p)) + 1 = Len(p)
    BY <1>1, <2>1, VaultAssumption
  <2>3. /\ q \in Paths /\ Len(q) = Len(Parent(p)) + 1
        /\ \A i \in 1 .. Len(Parent(p)) : q[i] = Parent(p)[i]
        /\ q[Len(Parent(p)) + 1] = name
    BY <2>1, <2>2, ChildIsPath
  <2> QED BY <2>1, <2>2, <2>3
<1>3. ~Under(t, q) /\ ~Under(u, q) /\ Moved(t, p, q) = Moved(u, p, q)
  OBVIOUS
<1>4. \A x \in Paths :
          /\ Moved(x, p, q) \in Paths /\ Len(Moved(x, p, q)) = Len(x)
          /\ \A i \in 1 .. Len(x) :
                 Moved(x, p, q)[i] = IF Under(x, p) /\ i = Len(p) THEN name ELSE x[i]
  BY MovedNames
<1> HIDE DEF q
<1>5. \A x \in Paths : Under(x, p) => Under(Moved(x, p, q), q)
  <2> SUFFICES ASSUME NEW x \in Paths, Under(x, p) PROVE Under(Moved(x, p, q), q)
    OBVIOUS
  <2> DEFINE m == Moved(x, p, q)
  <2>1. Len(x) \in Nat /\ Len(p) <= Len(x) /\ \A i \in 1 .. Len(p) : x[i] = p[i]
    BY LenOfPath, UnderMeans
  <2>2. /\ m \in Paths /\ Len(m) = Len(x)
        /\ \A i \in 1 .. Len(x) : m[i] = IF i = Len(p) THEN name ELSE x[i]
    BY <1>4
  <2> HIDE DEF m
  <2>3. ASSUME NEW i \in 1 .. Len(q) PROVE m[i] = q[i]
    <3>1. i \in 1 .. Len(x) /\ i \in 1 .. Len(p)
      BY <1>1, <1>2, <2>1
    <3>2. CASE i = Len(p)
      BY <1>2, <2>2, <3>1, <3>2
    <3>3. CASE i # Len(p)
      <4>1. i \in 1 .. Len(p) - 1
        BY <1>1, <3>1, <3>3
      <4> QED BY <1>2, <2>1, <2>2, <3>1, <3>3, <4>1
    <3> QED BY <3>2, <3>3
  <2>4. Len(q) <= Len(m)
    BY <1>2, <2>1, <2>2
  <2>5. Under(m, q)
    BY <1>2, <2>2, <2>3, <2>4, UnderMeans
  <2> QED BY <2>5 DEF m
<1>6. Under(t, p) <=> Under(u, p)
  <2>1. \A x \in Paths : ~Under(x, p) => Moved(x, p, q) = x
    BY DEF Moved
  <2> QED BY <1>3, <1>5, <2>1
<1>7. Len(t) = Len(u)
  BY <1>3, <1>4
<1>8. ASSUME NEW i \in 1 .. Len(t) PROVE t[i] = u[i]
  <2>1. CASE Under(t, p) /\ i = Len(p)
    <3>1. \A x \in {t, u} : Len(p) <= Len(x) /\ \A j \in 1 .. Len(p) : x[j] = p[j]
      BY <1>6, <2>1, UnderMeans
    <3>2. Len(p) \in 1 .. Len(p)
      BY <1>1
    <3> QED BY <2>1, <3>1, <3>2
  <2>2. CASE ~(Under(t, p) /\ i = Len(p))
    <3>1. Moved(t, p, q)[i] = t[i]
      BY <1>4, <2>2
    <3>2. Moved(u, p, q)[i] = u[i]
      BY <1>4, <1>6, <1>7, <2>2
    <3> QED BY <1>3, <3>1, <3>2
  <2> QED BY <2>1, <2>2
<1> QED BY <1>7, <1>8, PathsEqual

-----------------------------------------------------------------------------
(* The tree of the server *)

(* Nothing lies under a path that does not exist. *)
LEMMA NothingBelow ==
    ASSUME TreeOK, NEW q \in Paths \ {Root}, ~Exists(q), NEW t \in folders \cup files
    PROVE  ~Under(t, q)
<1> SUFFICES ASSUME Under(t, q) PROVE FALSE
  OBVIOUS
<1>1. t \in Paths /\ t # q
  BY DEF TreeOK, Exists
<1>2. q \in Ancestors(Parent(t))
  BY <1>1, UnderIsIn
<1> QED BY <1>2 DEF TreeOK, Exists

(* Making a folder with the folders above it *)
LEMMA MakeFolderKeeps ==
    ASSUME TreeOK, NEW p \in Paths \ {Root}, MakeFolder(p) PROVE TreeOK'
<1>1. /\ folders' = folders \cup Ancestors(p) /\ files' = files
      /\ Ancestors(p) \cap files = {}
  BY DEF MakeFolder, CanMake
<1>2. Ancestors(p) \subseteq Paths \ {Root}
  BY AncestorsArePaths
<1>3. ASSUME NEW a \in Ancestors(p) PROVE Ancestors(Parent(a)) \subseteq folders'
  <2>1. Ancestors(Parent(a)) \subseteq Ancestors(a)
    BY <1>2, ParentAncestorsBelong
  <2> QED BY <1>1, <2>1, AncestorsNest
<1> QED BY <1>1, <1>2, <1>3 DEF TreeOK

(* Writing a file, and the folders above it *)
LEMMA PutFileKeeps ==
    ASSUME TreeOK, NEW d \in Paths, NEW p \in Paths \ {Root}, Parent(p) = d, PutFile(d, p)
    PROVE  TreeOK'
<1>1. /\ folders' = folders \cup Ancestors(d) /\ files' = files \cup {p}
      /\ Ancestors(d) \cap files = {} /\ p \notin folders
  BY DEF PutFile, CanMake
<1>2. Ancestors(d) \subseteq Paths \ {Root}
  BY AncestorsArePaths
<1>3. p \notin Ancestors(d)
  <2>1. Len(p) \in Nat /\ Len(d) = Len(p) - 1
    BY ParentIsPath, LenOfPath
  <2>2. \A a \in Ancestors(d) : Len(a) <= Len(d)
    BY AncestorsArePaths
  <2> QED BY <2>1, <2>2
<1>4. ASSUME NEW a \in Ancestors(d) PROVE Ancestors(Parent(a)) \subseteq folders'
  <2>1. Ancestors(Parent(a)) \subseteq Ancestors(a)
    BY <1>2, ParentAncestorsBelong
  <2> QED BY <1>1, <2>1, AncestorsNest
<1> QED BY <1>1, <1>2, <1>3, <1>4 DEF TreeOK

(* Deleting an entry with all that lies below it *)
LEMMA DeleteKeeps == ASSUME TreeOK, NEW p \in Paths, Delete(p) PROVE TreeOK'
<1>1. /\ folders' = {t \in folders : ~Under(t, p)}
      /\ files' = {t \in files : ~Under(t, p)}
  BY DEF Delete
<1>2. ASSUME NEW t \in folders' \cup files' PROVE Ancestors(Parent(t)) \subseteq folders'
  <2>1. t \in folders \cup files /\ t \in Paths \ {Root} /\ ~Under(t, p)
    BY <1>1 DEF TreeOK
  <2>2. ASSUME NEW a \in Ancestors(Parent(t)) PROVE a \in folders'
    <3>1. a \in folders
      BY <2>1 DEF TreeOK
    <3>2. a \in Ancestors(t)
      BY <2>1, ParentAncestorsBelong
    <3>3. ~Under(a, p)
      BY <2>1, <3>2, UnderAncestor
    <3> QED BY <1>1, <3>1, <3>3
  <2> QED BY <2>2
<1> QED BY <1>1, <1>2 DEF TreeOK

(* Renaming an entry, which takes along what lies below it: no two entries   *)
(* meet, because nothing was under the new name, and the folders of an entry *)
(* move with it.                                                             *)
LEMMA MoveKeeps ==
    ASSUME TreeOK, NEW p \in Paths \ {Root}, NEW name \in Names,
           Move(p, Append(Parent(p), name))
    PROVE  TreeOK'
<1> DEFINE q == Append(Parent(p), name)
<1>1. /\ ~Exists(q)
      /\ folders' = {Moved(t, p, q) : t \in folders}
      /\ files' = {Moved(t, p, q) : t \in files}
  BY DEF Move, Moved
<1>2. q \in Paths \ {Root}
  <2>1. Parent(p) \in Paths /\ Len(Parent(p)) < MaxDepth
    BY ParentIsPath, LenOfPath, VaultAssumption
  <2> QED BY <2>1, ChildIsPath
<1>3. folders \cup files \subseteq Paths \ {Root}
  BY DEF TreeOK
<1>4. ASSUME NEW t \in folders \cup files
      PROVE  Moved(t, p, q) \in Paths \ {Root} /\ Len(Moved(t, p, q)) = Len(t)
  BY <1>3, MovedNames, RootIsPath
<1>5. folders' \cap files' = {}
  <2> SUFFICES ASSUME NEW t \in folders, NEW u \in files, Moved(t, p, q) = Moved(u, p, q)
               PROVE  FALSE
    BY <1>1
  <2>1. ~Under(t, q) /\ ~Under(u, q)
    BY <1>1, <1>2, NothingBelow
  <2>2. t = u
    BY <1>3, <2>1, MovedApart
  <2> QED BY <2>2 DEF TreeOK
<1>6. ASSUME NEW t \in folders \cup files
      PROVE  Ancestors(Parent(Moved(t, p, q))) \subseteq folders'
  <2>1. Len(t) \in Nat /\ t \in Paths \ {Root}
    BY <1>3, LenOfPath
  <2>2. Ancestors(Parent(Moved(t, p, q))) = {SubSeq(Moved(t, p, q), 1, n) : n \in 1 .. Len(t) - 1}
    BY <1>4, ParentAncestors
  <2>3. ASSUME NEW n \in 1 .. Len(t) - 1
        PROVE  SubSeq(Moved(t, p, q), 1, n) \in folders'
    <3>1. n \in 1 .. Len(t)
      BY <2>1
    <3>2. SubSeq(Moved(t, p, q), 1, n) = Moved(SubSeq(t, 1, n), p, q)
      BY <2>1, <3>1, MovedPrefix
    <3>3. SubSeq(t, 1, n) \in Ancestors(Parent(t))
      BY <2>1, ParentAncestors
    <3>4. SubSeq(t, 1, n) \in folders
      BY <3>3 DEF TreeOK
    <3> QED BY <1>1, <3>2, <3>4
  <2> QED BY <2>2, <2>3
<1>7. folders' \subseteq Paths \ {Root} /\ files' \subseteq Paths \ {Root}
  BY <1>1, <1>4
<1>8. \A t \in folders' \cup files' : Ancestors(Parent(t)) \subseteq folders'
  BY <1>1, <1>6
<1> QED BY <1>5, <1>7, <1>8 DEF TreeOK

-----------------------------------------------------------------------------
(* What a request is about: nobody renames or deletes the root, a new name   *)
(* fits below the path it goes to, and no listing has the root among its     *)
(* rows.                                                                     *)
AsksOK ==
    \A s \in Slots :
        /\ calls[s].op \in {"rename", "delete"} => calls[s].path # Root
        /\ calls[s].op \in {"mkdir", "upload", "rename"} => calls[s].name \in Names
        /\ calls[s].op \in {"mkdir", "upload"} => Len(calls[s].path) < MaxDepth
        /\ Root \notin calls[s].found.folders \cup calls[s].found.files

RowsOK == Root \notin cached.folders \cup cached.files

Typed == TypeOK /\ AsksOK /\ RowsOK

(* The empty listing, and the requests made of what the user clicks *)
LEMMA NoListingTyped == NoListing \in Listings /\ Root \notin NoListing.folders \cup NoListing.files
BY RootIsPath, VaultAssumption DEF NoListing, Listings

(* What a request may be, and the names one may carry *)
Ops == {"idle", "list", "mkdir", "upload", "rename", "delete"}
Labels == Names \cup {""}

(* The version at the start *)
LEMMA ZeroVersion == 0 \in 0 .. MaxVersion
BY VaultAssumption

(* A request that is sent *)
LEMMA CallTyped ==
    \A op \in Ops, path \in Paths, name \in Labels :
        /\ Call(op, path, name) \in Calls
        /\ Call(op, path, name).op = op /\ Call(op, path, name).path = path
        /\ Call(op, path, name).name = name
        /\ Root \notin Call(op, path, name).found.folders \cup Call(op, path, name).found.files
<1> SUFFICES ASSUME NEW op \in Ops, NEW path \in Paths, NEW name \in Labels
             PROVE  /\ Call(op, path, name) \in Calls
                    /\ Call(op, path, name).op = op /\ Call(op, path, name).path = path
                    /\ Call(op, path, name).name = name
                    /\ Root \notin Call(op, path, name).found.folders
                                      \cup Call(op, path, name).found.files
  OBVIOUS
<1> DEFINE c == Call(op, path, name)
<1>1. c = [op |-> op, path |-> path, name |-> name, answer |-> "none",
           found |-> NoListing, left |-> 0]
  BY DEF Call
<1> HIDE DEF c
<1>2. NoListing \in Listings
  BY NoListingTyped
<1>3. c \in Calls
  BY <1>1, <1>2, ZeroVersion DEF Calls, Ops, Labels
<1>4. c.op = op /\ c.path = path /\ c.name = name /\ c.found = NoListing
  BY <1>1
<1>5. Root \notin c.found.folders \cup c.found.files
  BY <1>4, NoListingTyped
<1> QED BY <1>3, <1>4, <1>5 DEF c

(* The requests and names there are *)
LEMMA OpsAndLabels ==
    /\ "idle" \in Ops /\ "list" \in Ops
    /\ {"mkdir", "upload", "rename", "delete"} \subseteq Ops
    /\ "" \in Labels /\ Names \subseteq Labels
BY DEF Ops, Labels

(* A slot that is given back *)
LEMMA IdleIsTyped ==
    Idle \in Calls /\ Idle.op = "idle" /\ Root \notin Idle.found.folders \cup Idle.found.files
<1>1. PICK op \in Ops, none \in Labels : op = "idle" /\ none = ""
  BY OpsAndLabels
<1>2. /\ Call(op, Root, none) \in Calls /\ Call(op, Root, none).op = op
      /\ Root \notin Call(op, Root, none).found.folders \cup Call(op, Root, none).found.files
  BY RootIsPath, CallTyped
<1>3. Idle = Call(op, Root, none)
  BY <1>1 DEF Idle
<1> QED BY <1>1, <1>2, <1>3

(* A request that is answered *)
LEMMA RepliedTyped ==
    ASSUME NEW c \in Calls, NEW answer \in {"ok", "failed"}, NEW found \in Listings,
           NEW left \in 0 .. MaxVersion
    PROVE  /\ Replied(c, answer, found, left) \in Calls
           /\ Replied(c, answer, found, left).op = c.op
           /\ Replied(c, answer, found, left).path = c.path
           /\ Replied(c, answer, found, left).name = c.name
           /\ Replied(c, answer, found, left).found = found
BY DEF Replied, Calls

(* The slot s takes a new value; the other requests stay what they are.      *)
LEMMA SlotTyped ==
    ASSUME Typed, NEW s \in Slots, NEW c \in Calls,
           c.op \in {"rename", "delete"} => c.path # Root,
           c.op \in {"mkdir", "upload", "rename"} => c.name \in Names,
           c.op \in {"mkdir", "upload"} => Len(c.path) < MaxDepth,
           Root \notin c.found.folders \cup c.found.files,
           calls' = [calls EXCEPT ![s] = c]
    PROVE  calls' \in [Slots -> Calls] /\ AsksOK'
<1>1. calls \in [Slots -> Calls]
  BY DEF Typed, TypeOK
<1>2. calls' \in [Slots -> Calls] /\ calls'[s] = c /\ \A t \in Slots \ {s} : calls'[t] = calls[t]
  BY <1>1
<1> QED BY <1>2 DEF Typed, AsksOK

(* A listing is asked for. *)
LEMMA LoadTyped ==
    ASSUME Typed, NEW path \in Paths, NEW s \in Slots, loadVault(path, s),
           UNCHANGED tree, acked' \in 0 .. MaxVersion, chooser' \in BOOLEAN
    PROVE  Typed'
<1> DEFINE c == Call("list", path, "")
<1>1. /\ c \in Calls /\ c.op = "list"
      /\ Root \notin c.found.folders \cup c.found.files
  <2>1. PICK op \in Ops, none \in Labels : op = "list" /\ none = ""
    BY OpsAndLabels
  <2>2. /\ Call(op, path, none) \in Calls /\ Call(op, path, none).op = op
        /\ Root \notin Call(op, path, none).found.folders
                          \cup Call(op, path, none).found.files
    BY CallTyped
  <2>3. c = Call(op, path, none)
    BY <2>1
  <2> HIDE DEF c
  <2> QED BY <2>1, <2>2, <2>3
<1>2. calls' = [calls EXCEPT ![s] = c]
  BY DEF loadVault
<1> HIDE DEF c
<1>3. calls' \in [Slots -> Calls] /\ AsksOK'
  BY <1>1, <1>2, SlotTyped
<1>4. TreeOK' /\ version' \in 0 .. MaxVersion
  BY DEF Typed, TypeOK, TreeOK, tree
<1>5. /\ current' \in Paths /\ cached' \in Listings /\ pane' = "loading"
      /\ newest' \in Slots /\ stale' \in BOOLEAN /\ RowsOK'
  BY DEF loadVault, Typed, TypeOK, RowsOK
<1> QED BY <1>3, <1>4, <1>5 DEF Typed, TypeOK

(* The slot s changes while nothing on the screen does. *)
LEMMA QuietTyped ==
    ASSUME Typed, calls' \in [Slots -> Calls], AsksOK', UNCHANGED <<view, newest, acked>>,
           TreeOK', version' \in 0 .. MaxVersion, chooser' \in BOOLEAN
    PROVE  Typed'
<1>1. /\ current' \in Paths /\ cached' \in Listings
      /\ pane' \in {"empty", "loading", "listing", "error"} /\ acked' \in 0 .. MaxVersion
      /\ newest' \in Slots \cup {NoSlot} /\ stale' \in BOOLEAN /\ RowsOK'
  BY DEF view, Typed, TypeOK, RowsOK
<1> QED BY <1>1 DEF Typed, TypeOK

(* Opening a folder *)
LEMMA OpenTyped ==
    ASSUME Typed, NEW path \in Paths, Open(path), chooser' \in BOOLEAN PROVE Typed'
<1>1. FreeSlot \in Slots
  BY FreeSlotIsFree DEF Open
<1>2. acked' \in 0 .. MaxVersion
  BY DEF Open, Typed, TypeOK
<1> QED BY <1>1, <1>2, LoadTyped DEF Open

(* Sending an operation *)
LEMMA SendTyped ==
    ASSUME Typed, NEW op \in {"mkdir", "upload", "rename", "delete"},
           NEW path \in Paths, NEW name \in Labels, Send(op, path, name), chooser' \in BOOLEAN,
           op \in {"rename", "delete"} => path # Root,
           op \in {"mkdir", "upload", "rename"} => name \in Names,
           op \in {"mkdir", "upload"} => Len(path) < MaxDepth
    PROVE  Typed'
<1> DEFINE c == Call(op, path, name)
<1>1. FreeSlot \in Slots
  BY FreeSlotIsFree DEF Send
<1>2. /\ c \in Calls /\ c.op = op /\ c.path = path /\ c.name = name
      /\ Root \notin c.found.folders \cup c.found.files
  <2>1. op \in Ops /\ name \in Labels
    BY OpsAndLabels
  <2> QED BY <2>1, CallTyped
<1>3. calls' = [calls EXCEPT ![FreeSlot] = c] /\ UNCHANGED <<tree, view, newest, acked>>
  BY DEF Send
<1> HIDE DEF c
<1>4. calls' \in [Slots -> Calls] /\ AsksOK'
  BY <1>1, <1>2, <1>3, SlotTyped
<1>5. TreeOK' /\ version' \in 0 .. MaxVersion
  BY <1>3 DEF Typed, TypeOK, TreeOK, tree
<1> QED BY <1>3, <1>4, <1>5, QuietTyped

(* The user's clicks: a path in the crumbs or in a row is one of the vault,  *)
(* and a row is never the root.                                              *)
LEMMA ClickTyped == ASSUME Typed, Click PROVE Typed'
<1>1. current \in Paths /\ cached \in Listings /\ RowsOK
  BY DEF Typed, TypeOK
<1>2. cached.folders \cup cached.files \subseteq Paths \ {Root}
  BY <1>1 DEF Listings, RowsOK
<1>0. chooser' \in BOOLEAN
  BY DEF Click, openChooser, handleVaultUpload, dismissChooser, Typed, TypeOK
<1>3. CASE OpenTab
  BY <1>0, <1>3, OpenTyped, RootIsPath DEF OpenTab
<1>4. CASE OpenCrumb
  BY <1>0, <1>1, <1>4, OpenTyped, RootIsPath, AncestorsArePaths DEF OpenCrumb
<1>5. CASE OpenRow
  BY <1>0, <1>2, <1>5, OpenTyped DEF OpenRow
<1>6. CASE navigateVaultUp
  BY <1>0, <1>1, <1>6, OpenTyped, ParentIsPath DEF navigateVaultUp
<1>7. CASE promptNewFolder
  <2>1. PICK n \in Names : Send("mkdir", current, n)
    BY <1>7 DEF promptNewFolder
  <2> QED BY <1>0, <1>1, <1>7, <2>1, OpsAndLabels, SendTyped DEF promptNewFolder
<1>8. CASE handleVaultUpload
  <2>1. PICK n \in Names : Send("upload", current, n)
    BY <1>8 DEF handleVaultUpload
  <2> QED BY <1>0, <1>1, <1>8, <2>1, OpsAndLabels, SendTyped DEF handleVaultUpload
<1>9. CASE promptRename
  <2>1. PICK p \in cached.folders \cup cached.files, n \in Names : Send("rename", p, n)
    BY <1>9 DEF promptRename
  <2>2. p \in Paths /\ p # Root
    BY <1>2
  <2> QED BY <1>0, <2>1, <2>2, OpsAndLabels, SendTyped
<1>10. CASE confirmDelete
  <2>1. PICK p \in cached.folders \cup cached.files : Send("delete", p, "")
    BY <1>10 DEF confirmDelete
  <2>2. p \in Paths /\ p # Root
    BY <1>2
  <2> QED BY <1>0, <2>1, <2>2, OpsAndLabels, SendTyped
<1>11. CASE openChooser \/ dismissChooser
  BY <1>0, <1>11 DEF openChooser, dismissChooser, tree, view, Typed, TypeOK, TreeOK, AsksOK, RowsOK
<1> QED BY <1>3, <1>4, <1>5, <1>6, <1>7, <1>8, <1>9, <1>10, <1>11 DEF Click, ClickPage

(* An operation of the window keeps the tree whole. *)
LEMMA PerformKeeps == ASSUME Typed, NEW s \in Slots, Perform(calls[s]) PROVE TreeOK'
<1> DEFINE c == calls[s]
<1>1. /\ c \in Calls /\ TreeOK
      /\ c.op \in {"rename", "delete"} => c.path # Root
      /\ c.op \in {"mkdir", "upload", "rename"} => c.name \in Names
      /\ c.op \in {"mkdir", "upload"} => Len(c.path) < MaxDepth
  BY DEF Typed, TypeOK, AsksOK
<1>2. c.path \in Paths
  BY <1>1 DEF Calls
<1> HIDE DEF c
<1>3. CASE c.op = "mkdir" /\ MakeFolder(Append(c.path, c.name))
  <2>1. Append(c.path, c.name) \in Paths \ {Root}
    BY <1>1, <1>2, <1>3, ChildIsPath
  <2> QED BY <1>1, <1>3, <2>1, MakeFolderKeeps
<1>4. CASE c.op = "upload" /\ PutFile(c.path, Append(c.path, c.name))
  <2>1. Append(c.path, c.name) \in Paths \ {Root} /\ Parent(Append(c.path, c.name)) = c.path
    BY <1>1, <1>2, <1>4, ChildIsPath
  <2> QED BY <1>1, <1>2, <1>4, <2>1, PutFileKeeps
<1>5. CASE c.op = "rename" /\ Move(c.path, Append(Parent(c.path), c.name))
  BY <1>1, <1>2, <1>5, MoveKeeps
<1>6. CASE c.op = "delete" /\ Delete(c.path)
  BY <1>1, <1>2, <1>6, DeleteKeeps
<1>7. Perform(c)
  BY DEF c
<1> QED BY <1>3, <1>4, <1>5, <1>6, <1>7 DEF Perform

(* The tree changes a bounded number of times. *)
LEMMA VersionGrows == ASSUME Typed, Changed PROVE version' \in 0 .. MaxVersion /\ version' = version + 1
BY VaultAssumption DEF Typed, TypeOK, Changed

(* The server performs an operation. *)
LEMMA ServeOperationTyped ==
    ASSUME Typed, NEW s \in Slots, ServeOperation(s), chooser' \in BOOLEAN PROVE Typed'
<1> DEFINE c == Replied(calls[s], "ok", NoListing, version + 1)
<1>1. Perform(calls[s]) /\ Changed /\ UNCHANGED <<view, newest, acked>>
      /\ calls' = [calls EXCEPT ![s] = c]
  BY DEF ServeOperation
<1>2. version' \in 0 .. MaxVersion /\ version + 1 \in 0 .. MaxVersion
  BY <1>1, VersionGrows
<1>3. calls[s] \in Calls
  BY DEF Typed, TypeOK
<1>4. /\ c \in Calls /\ c.op = calls[s].op /\ c.path = calls[s].path /\ c.name = calls[s].name
      /\ Root \notin c.found.folders \cup c.found.files
  BY <1>2, <1>3, RepliedTyped, NoListingTyped
<1> HIDE DEF c
<1>5. calls' \in [Slots -> Calls] /\ AsksOK'
  BY <1>1, <1>4, SlotTyped DEF Typed, AsksOK
<1>6. TreeOK'
  BY <1>1, PerformKeeps
<1> QED BY <1>1, <1>2, <1>5, <1>6, QuietTyped

(* The rows of a listing lie in the folder listed, so none is the root.      *)
LEMMA ServeListTyped ==
    ASSUME Typed, NEW s \in Slots, ServeList(s), chooser' \in BOOLEAN PROVE Typed'
<1> DEFINE found == list_files(calls[s].path)
           c == Replied(calls[s], "ok", found, 0)
<1>1. calls[s] \in Calls /\ version \in 0 .. MaxVersion /\ 0 \in 0 .. MaxVersion /\ TreeOK
  BY VaultAssumption DEF Typed, TypeOK
<1>2. calls[s].path \in Paths
  BY <1>1 DEF Calls
<1>3. found \in Listings /\ Root \notin found.folders \cup found.files
  BY <1>1, <1>2 DEF list_files, Listings, TreeOK
<1> HIDE DEF found
<1>4. /\ c \in Calls /\ c.op = calls[s].op /\ c.path = calls[s].path /\ c.name = calls[s].name
      /\ Root \notin c.found.folders \cup c.found.files
  BY <1>1, <1>3, RepliedTyped
<1>5. calls' = [calls EXCEPT ![s] = c] /\ UNCHANGED <<tree, view, newest, acked>>
  BY DEF ServeList, found
<1> HIDE DEF c
<1>6. calls' \in [Slots -> Calls] /\ AsksOK'
  BY <1>4, <1>5, SlotTyped DEF Typed, AsksOK
<1>7. TreeOK' /\ version' \in 0 .. MaxVersion
  BY <1>1, <1>5 DEF TreeOK, tree
<1> QED BY <1>5, <1>6, <1>7, QuietTyped

(* A request is refused or lost. *)
LEMMA FailTyped ==
    ASSUME Typed, NEW s \in Slots, Fail(s), chooser' \in BOOLEAN PROVE Typed'
<1> DEFINE c == Replied(calls[s], "failed", NoListing, 0)
<1>1. calls[s] \in Calls /\ version \in 0 .. MaxVersion /\ 0 \in 0 .. MaxVersion /\ TreeOK
  BY VaultAssumption DEF Typed, TypeOK
<1>2. /\ c \in Calls /\ c.op = calls[s].op /\ c.path = calls[s].path /\ c.name = calls[s].name
      /\ Root \notin c.found.folders \cup c.found.files
  <2>1. PICK answer \in {"ok", "failed"} : answer = "failed"
    OBVIOUS
  <2>2. c = Replied(calls[s], answer, NoListing, 0)
    BY <2>1
  <2> HIDE DEF c
  <2>3. c \in Calls /\ c.op = calls[s].op /\ c.path = calls[s].path /\ c.name = calls[s].name
        /\ c.found = NoListing
    BY <1>1, <2>2, RepliedTyped, NoListingTyped
  <2> QED BY <2>3, NoListingTyped
<1>3. calls' = [calls EXCEPT ![s] = c] /\ UNCHANGED <<tree, view, newest, acked>>
  BY DEF Fail
<1> HIDE DEF c
<1>4. calls' \in [Slots -> Calls] /\ AsksOK'
  BY <1>2, <1>3, SlotTyped DEF Typed, AsksOK
<1>5. TreeOK' /\ version' \in 0 .. MaxVersion
  BY <1>1, <1>3 DEF TreeOK, tree
<1> QED BY <1>3, <1>4, <1>5, QuietTyped

(* Others change the tree. *)
LEMMA OthersTyped ==
    ASSUME Typed, OthersChange, chooser' \in BOOLEAN PROVE Typed'
<1>1. PICK p \in Paths \ {Root} : MakeFolder(p) \/ PutFile(Parent(p), p) \/ Delete(p)
  BY DEF OthersChange
<1>2. Changed /\ UNCHANGED <<view, calls, newest, acked>>
  BY DEF OthersChange
<1>3. TreeOK'
  <2>1. TreeOK /\ Parent(p) \in Paths
    BY ParentIsPath DEF Typed, TypeOK
  <2> QED BY <1>1, <2>1, MakeFolderKeeps, PutFileKeeps, DeleteKeeps
<1>4. version' \in 0 .. MaxVersion
  BY <1>2, VersionGrows
<1>5. calls' \in [Slots -> Calls] /\ AsksOK'
  BY <1>2 DEF Typed, TypeOK, AsksOK
<1> QED BY <1>2, <1>3, <1>4, <1>5, QuietTyped

(* A slot is given back. *)
LEMMA IdleTyped ==
    ASSUME Typed, NEW s \in Slots, calls' = [calls EXCEPT ![s] = Idle]
    PROVE  calls' \in [Slots -> Calls] /\ AsksOK'
BY IdleIsTyped, SlotTyped

(* A listing lands: its rows are entries, never the root. *)
LEMMA ListAnsweredTyped ==
    ASSUME Typed, NEW s \in Slots, ListAnswered(s), chooser' \in BOOLEAN PROVE Typed'
<1>1. calls' \in [Slots -> Calls] /\ AsksOK'
  BY IdleTyped DEF ListAnswered
<1>2. calls[s].found \in Listings /\ Root \notin calls[s].found.folders \cup calls[s].found.files
  BY DEF Typed, TypeOK, AsksOK, Calls
<1>3. cached' \in Listings /\ RowsOK' /\ pane' \in {"listing", "error"}
  <2>1. CASE cached' = calls[s].found /\ renderVaultView
    BY <1>2, <2>1 DEF renderVaultView, RowsOK
  <2>2. CASE pane' = "error" /\ UNCHANGED cached
    BY <2>2 DEF Typed, TypeOK, RowsOK
  <2> QED BY <2>1, <2>2 DEF ListAnswered
<1>4. newest' \in Slots \cup {NoSlot} /\ stale' \in BOOLEAN
  BY DEF ListAnswered, Typed, TypeOK
<1>5. TreeOK' /\ version' \in 0 .. MaxVersion /\ acked' \in 0 .. MaxVersion /\ current' \in Paths
  BY DEF ListAnswered, Typed, TypeOK, TreeOK, tree
<1> QED BY <1>1, <1>3, <1>4, <1>5 DEF Typed, TypeOK

(* An operation is acknowledged. *)
LEMMA OperationDoneTyped ==
    ASSUME Typed, NEW s \in Slots, OperationDone(s), chooser' \in BOOLEAN PROVE Typed'
<1>1. loadVault(current, s) /\ UNCHANGED tree /\ acked' = Later(acked, calls[s].left)
  BY DEF OperationDone, Reload
<1>2. current \in Paths /\ acked \in 0 .. MaxVersion /\ calls[s].left \in 0 .. MaxVersion
  BY DEF Typed, TypeOK, Calls
<1>3. acked' \in 0 .. MaxVersion
  BY <1>1, <1>2 DEF Later
<1> QED BY <1>1, <1>2, <1>3, LoadTyped

(* An operation failed. *)
LEMMA OperationFailedTyped ==
    ASSUME Typed, NEW s \in Slots, OperationFailed(s), chooser' \in BOOLEAN PROVE Typed'
<1>1. calls' \in [Slots -> Calls] /\ AsksOK'
  BY IdleTyped DEF OperationFailed
<1>2. UNCHANGED <<tree, view, newest, acked>>
  BY DEF OperationFailed
<1>3. TreeOK' /\ version' \in 0 .. MaxVersion
  BY <1>2 DEF Typed, TypeOK, TreeOK, tree
<1> QED BY <1>1, <1>2, <1>3, QuietTyped

(* The vault starts whole, without files. *)
THEOREM InitTyped == Init => Typed
<1> SUFFICES ASSUME Init PROVE Typed
  OBVIOUS
<1>1. folders = InitFolders /\ files = {} /\ 0 \in 0 .. MaxVersion /\ Root \in Paths
  BY RootIsPath, VaultAssumption DEF Init
<1>2. TreeOK
  <2>1. ASSUME NEW p \in InitFolders PROVE Ancestors(Parent(p)) \subseteq InitFolders
    BY ParentAncestorsBelong, VaultAssumption
  <2> QED BY <1>1, <2>1, VaultAssumption DEF TreeOK
<1>3. Idle \in Calls /\ Idle.op = "idle" /\ Root \notin Idle.found.folders \cup Idle.found.files
  BY IdleIsTyped
<1>4. calls = [s \in Slots |-> Idle]
  BY DEF Init
<1>5. calls \in [Slots -> Calls] /\ \A s \in Slots : calls[s] = Idle
  BY <1>3, <1>4
<1>6. AsksOK
  BY <1>3, <1>5 DEF AsksOK
<1>7. RowsOK /\ cached \in Listings
  BY NoListingTyped DEF Init, RowsOK
<1> QED BY <1>1, <1>2, <1>5, <1>6, <1>7 DEF Init, Typed, TypeOK

(* Every step keeps the types and the tree. *)
THEOREM StepTyped == Typed /\ [Next]_vars => Typed'
<1> SUFFICES ASSUME Typed, [Next]_vars PROVE Typed'
  OBVIOUS
<1>1. CASE Click
  BY <1>1, ClickTyped
<1>0. chooser \in BOOLEAN
  BY DEF Typed, TypeOK
<1>2. CASE OthersChange /\ UNCHANGED chooser
  BY <1>0, <1>2, OthersTyped
<1>3. CASE Serve /\ UNCHANGED chooser
  BY <1>0, <1>3, ServeOperationTyped, ServeListTyped, FailTyped DEF Serve
<1>4. CASE Answer /\ UNCHANGED chooser
  BY <1>0, <1>4, ListAnsweredTyped, OperationDoneTyped, OperationFailedTyped DEF Answer
<1>5. CASE UNCHANGED vars
  BY <1>5 DEF vars, tree, view, Typed, TypeOK, TreeOK, AsksOK, RowsOK
<1> QED BY <1>1, <1>2, <1>3, <1>4, <1>5 DEF Next

(* Every variable keeps its type, whatever crosses.                          *)
THEOREM TypeCorrect == Spec => []TypeOK
<1>1. Typed => TypeOK
  BY DEF Typed
<1> QED BY <1>1, InitTyped, StepTyped, PTL DEF Spec

(* The tree of the server stays whole: no entry without the folders it lies  *)
(* in, and nothing both a file and a folder, for any names and any depth.    *)
THEOREM TreeSound == Spec => []TreeOK
<1>1. Typed => TreeOK
  BY DEF Typed, TypeOK
<1> QED BY <1>1, InitTyped, StepTyped, PTL DEF Spec
=============================================================================
