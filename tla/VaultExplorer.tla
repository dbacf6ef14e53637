--------------------------- MODULE VaultExplorer ---------------------------
(* The Vault tab (static/js/vault.js) of one window against the files of the *)
(* server, which other windows, tasks and the shell change as well.          *)
(*                                                                           *)
(* The controller keeps the path it is at and the listing it was last given. *)
(* The path is set when a listing is asked for and the listing when it       *)
(* lands; listings land in any order, and the one that lands last is painted *)
(* under the path of the one that was asked for last.                        *)
(*                                                                           *)
(* The search, which hides rows, and the preview of a picture are left out;  *)
(* a tab that is not shown keeps its state, so leaving it is no action.      *)
EXTENDS Integers, Sequences, SequencesExt

CONSTANTS
    Names,       \* the names of folders and files
    InitFolders, \* the folders there are at the start
    MaxDepth,    \* bound on the length of a path
    MaxVersion,  \* bound on the changes of the tree
    MaxRequests  \* bound on the requests under way together

VARIABLES
    folders, files,  \* the paths of the vault at the server, the root aside
    version,         \* how often the tree has changed
    current,         \* currentVaultPath
    cached,          \* cachedVaultFiles
    pane,            \* what vaultContent shows; a listing is `cached' under `current'
    calls,           \* the requests under way
    newest,          \* the listing asked for last, while it is under way
    stale,           \* the pane was painted by a listing asked for earlier
    acked,           \* the version the latest acknowledged operation left
    chooser          \* the file chooser of the upload is open

tree == <<folders, files, version>>
view == <<current, cached, pane, stale>>
vars == <<tree, view, calls, newest, acked, chooser>>

Slots == 1 .. MaxRequests
NoSlot == 0

Root == <<>>
Paths == UNION {[1 .. n -> Names] : n \in 0 .. MaxDepth}
Parent(p) == SubSeq(p, 1, Len(p) - 1)
Under(p, d) == Len(d) <= Len(p) /\ SubSeq(p, 1, Len(d)) = d
Ancestors(p) == {SubSeq(p, 1, n) : n \in 1 .. Len(p)}

ASSUME VaultAssumption ==
    /\ MaxDepth \in Nat \ {0}
    /\ MaxVersion \in Nat
    /\ MaxRequests \in Nat \ {0}
    /\ InitFolders \subseteq Paths \ {Root}
    /\ \A p \in InitFolders : Ancestors(p) \subseteq InitFolders

Listings == [of : Paths, folders : SUBSET Paths, files : SUBSET Paths, version : 0 .. MaxVersion]
NoListing == [of |-> Root, folders |-> {}, files |-> {}, version |-> 0]

(* `found' is what a served listing holds, `left' the version an operation   *)
(* left behind.                                                              *)
Calls == [op : {"idle", "list", "mkdir", "upload", "rename", "delete"},
          path : Paths, name : Names \cup {""}, answer : {"none", "ok", "failed"},
          found : Listings, left : 0 .. MaxVersion]
Call(op, path, name) ==
    [op |-> op, path |-> path, name |-> name, answer |-> "none",
     found |-> NoListing, left |-> 0]
Replied(c, answer, found, left) ==
    [op |-> c.op, path |-> c.path, name |-> c.name, answer |-> answer,
     found |-> found, left |-> left]
Idle == Call("idle", Root, "")

Free(s) == calls[s].op = "idle"
FreeSlot == CHOOSE s \in Slots : Free(s)
Room == \E s \in Slots : Free(s)

Later(a, b) == IF a >= b THEN a ELSE b

-----------------------------------------------------------------------------
(* Variants that stand for plausible slips in the code; no behaviour uses    *)
(* them.                                                                     *)

Slip_RootIsFalsy(path, s) ==
    /\ current' = IF path = Root THEN current ELSE path
    /\ pane' = "loading"
    /\ calls' = [calls EXCEPT ![s] = Call("list", path, "")]
    /\ newest' = s
    /\ UNCHANGED <<cached, stale>>

Slip_RepaintCached(s) ==
    /\ pane' = "listing"
    /\ calls' = [calls EXCEPT ![s] = Idle]
    /\ UNCHANGED <<current, cached, stale, newest>>

-----------------------------------------------------------------------------
(* loadVault up to its request, which takes the slot s *)
loadVault(path, s) ==
    /\ current' = path
    /\ pane' = "loading"
    /\ calls' = [calls EXCEPT ![s] = Call("list", path, "")]
    /\ newest' = s
    /\ UNCHANGED <<cached, stale>>

(* renderVaultView paints `cached' under the crumbs of `current', with the    *)
(* buttons of its rows.                                                      *)
renderVaultView == pane' = "listing"

(* Every operation that is done asks for a listing of the path the           *)
(* controller is at by then.                                                 *)
Reload(s) == loadVault(current, s)

Open(path) == Room /\ loadVault(path, FreeSlot) /\ UNCHANGED <<tree, acked>>

(* The tab in the navigation, and the button of an error *)
OpenTab == Open(Root)

OpenCrumb == pane = "listing" /\ \E p \in Ancestors(current) \cup {Root} : Open(p)

OpenRow == pane = "listing" /\ \E p \in cached.folders : Open(p)

navigateVaultUp == pane = "listing" /\ current # Root /\ Open(Parent(current))

Send(op, path, name) ==
    /\ Room
    /\ calls' = [calls EXCEPT ![FreeSlot] = Call(op, path, name)]
    /\ UNCHANGED <<tree, view, newest, acked>>

(* A folder and an upload go to the path the controller is at, an upload to  *)
(* the one it is at when the file is chosen: while the chooser is open other *)
(* answers land, and may blank the pane that the chooser was opened from.    *)
promptNewFolder ==
    /\ pane = "listing" /\ Len(current) < MaxDepth
    /\ \E n \in Names : Send("mkdir", current, n)

handleVaultUpload ==
    /\ chooser /\ chooser' = FALSE
    /\ Len(current) < MaxDepth
    /\ \E n \in Names : Send("upload", current, n)

openChooser ==
    /\ pane = "listing"
    /\ ~chooser /\ chooser' = TRUE
    /\ UNCHANGED <<tree, view, calls, newest, acked>>

dismissChooser ==
    /\ chooser /\ chooser' = FALSE
    /\ UNCHANGED <<tree, view, calls, newest, acked>>

(* What is renamed or deleted is a row, which knows its whole path. *)
promptRename ==
    /\ pane = "listing"
    /\ \E p \in cached.folders \cup cached.files : \E n \in Names \ {Last(p)} :
           Send("rename", p, n)

confirmDelete ==
    /\ pane = "listing"
    /\ \E p \in cached.folders \cup cached.files : Send("delete", p, "")

-----------------------------------------------------------------------------
(* The server. Creating a folder creates the ones above it that are missing, *)
(* and so does an upload into a folder that is gone.                         *)
Exists(p) == p \in folders \cup files

CanMake(p) == Ancestors(p) \cap files = {}

MakeFolder(p) ==
    /\ CanMake(p)
    /\ folders' = folders \cup Ancestors(p)
    /\ UNCHANGED files

PutFile(d, p) ==
    /\ CanMake(d) /\ p \notin folders
    /\ folders' = folders \cup Ancestors(d)
    /\ files' = files \cup {p}

Move(p, q) ==
    LET moved(t) == IF Under(t, p) THEN q \o SubSeq(t, Len(p) + 1, Len(t)) ELSE t
    IN  /\ Exists(p) /\ ~Exists(q)
        /\ folders' = {moved(t) : t \in folders}
        /\ files' = {moved(t) : t \in files}

Delete(p) ==
    /\ Exists(p)
    /\ folders' = {t \in folders : ~Under(t, p)}
    /\ files' = {t \in files : ~Under(t, p)}

Perform(c) ==
    \/ c.op = "mkdir" /\ MakeFolder(Append(c.path, c.name))
    \/ c.op = "upload" /\ PutFile(c.path, Append(c.path, c.name))
    \/ c.op = "rename" /\ Move(c.path, Append(Parent(c.path), c.name))
    \/ c.op = "delete" /\ Delete(c.path)

Changed == version < MaxVersion /\ version' = version + 1

ServeOperation(s) ==
    /\ calls[s].answer = "none"
    /\ Perform(calls[s]) /\ Changed
    /\ calls' = [calls EXCEPT ![s] = Replied(@, "ok", NoListing, version + 1)]
    /\ UNCHANGED <<view, newest, acked>>

list_files(path) ==
    [of |-> path, version |-> version,
     folders |-> {p \in folders : Parent(p) = path},
     files |-> {p \in files : Parent(p) = path}]

ServeList(s) ==
    /\ calls[s].op = "list" /\ calls[s].answer = "none"
    /\ calls[s].path \in folders \cup {Root}
    /\ calls' = [calls EXCEPT ![s] = Replied(@, "ok", list_files(@.path), 0)]
    /\ UNCHANGED <<tree, view, newest, acked>>

(* The request is refused, or lost, or its answer is: the operation may have *)
(* been performed.                                                           *)
Fail(s) ==
    /\ ~Free(s) /\ calls[s].answer # "failed"
    /\ calls' = [calls EXCEPT ![s] = Replied(@, "failed", NoListing, 0)]
    /\ UNCHANGED <<tree, view, newest, acked>>

(* Another window, a task or the shell *)
OthersChange ==
    /\ \E p \in Paths \ {Root} :
           MakeFolder(p) \/ PutFile(Parent(p), p) \/ Delete(p)
    /\ Changed
    /\ UNCHANGED <<view, calls, newest, acked>>

-----------------------------------------------------------------------------
(* The rest of loadVault *)
ListAnswered(s) ==
    /\ calls[s].op = "list"
    /\ \/ /\ calls[s].answer = "ok"
          /\ cached' = calls[s].found
          /\ renderVaultView
       \/ calls[s].answer = "failed" /\ pane' = "error" /\ UNCHANGED cached
    /\ stale' = (s # newest)
    /\ newest' = IF s = newest THEN NoSlot ELSE newest
    /\ calls' = [calls EXCEPT ![s] = Idle]
    /\ UNCHANGED <<tree, current, acked>>

OperationDone(s) ==
    /\ calls[s].op \notin {"idle", "list"} /\ calls[s].answer = "ok"
    /\ Reload(s)
    /\ acked' = Later(acked, calls[s].left)
    /\ UNCHANGED tree

(* A failure is shown as a toast; the listing stays as it is. *)
OperationFailed(s) ==
    /\ calls[s].op \notin {"idle", "list"} /\ calls[s].answer = "failed"
    /\ calls' = [calls EXCEPT ![s] = Idle]
    /\ UNCHANGED <<tree, view, newest, acked>>

-----------------------------------------------------------------------------
Init ==
    /\ folders = InitFolders /\ files = {} /\ version = 0
    /\ current = Root /\ cached = NoListing /\ pane = "empty"
    /\ calls = [s \in Slots |-> Idle]
    /\ newest = NoSlot /\ stale = FALSE /\ acked = 0
    /\ chooser = FALSE

ClickPage ==
    \/ OpenTab \/ OpenCrumb \/ OpenRow \/ navigateVaultUp
    \/ promptNewFolder \/ promptRename \/ confirmDelete

(* An open chooser covers the page. *)
Click ==
    \/ ~chooser /\ ClickPage /\ UNCHANGED chooser
    \/ openChooser \/ handleVaultUpload \/ dismissChooser

Answer == \E s \in Slots : ListAnswered(s) \/ OperationDone(s) \/ OperationFailed(s)
Serve == \E s \in Slots : ServeOperation(s) \/ ServeList(s) \/ Fail(s)

Next ==
    \/ Click
    \/ (OthersChange \/ Serve \/ Answer) /\ UNCHANGED chooser

Spec == Init /\ [][Next]_vars

-----------------------------------------------------------------------------
(* The tree of the server has no entry without the folders it lies in, and   *)
(* nothing that is both a file and a folder, whatever is renamed, deleted or *)
(* created under a path that is gone by then.                                *)
TreeOK ==
    /\ folders \subseteq Paths \ {Root} /\ files \subseteq Paths \ {Root}
    /\ folders \cap files = {}
    /\ \A p \in folders \cup files : Ancestors(Parent(p)) \subseteq folders

(* The type invariant *)
TypeOK ==
    /\ TreeOK
    /\ version \in 0 .. MaxVersion /\ acked \in 0 .. MaxVersion
    /\ current \in Paths /\ cached \in Listings
    /\ pane \in {"empty", "loading", "listing", "error"}
    /\ calls \in [Slots -> Calls]
    /\ newest \in Slots \cup {NoSlot} /\ stale \in BOOLEAN /\ chooser \in BOOLEAN

(* Once the listing asked for last has landed, the rows under the bread      *)
(* crumbs are those of the folder the crumbs name - the folder a new folder  *)
(* or an upload goes to - unless an earlier listing landed after it.         *)
CrumbsTell ==
    pane = "listing" /\ newest = NoSlot /\ ~stale => cached.of = current

(* What the user was told is done is in what he sees: once the listing asked *)
(* for last has landed, it was taken after every operation acknowledged to   *)
(* this window - unless an earlier listing landed after it.                  *)
AcknowledgedIsListed ==
    pane = "listing" /\ newest = NoSlot /\ ~stale => cached.version >= acked
=============================================================================
