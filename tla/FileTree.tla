------------------------------ MODULE FileTree ------------------------------
(***************************************************************************)
(* The path functions of filesystem.h (create_directories, remove_all,     *)
(* mkdir, rename, ...) and fs::read_file, over the libuv requests of fs.h. *)
(*                                                                         *)
(* The kernel executes one request at a time on a shared tree; between two *)
(* requests of a coroutine those of the others, or of other processes, are *)
(* executed.  An awaiter of fs.h is an operator that says what its request *)
(* answers and does; a submission that is refused and a request that fails *)
(* both make await_resume throw.  A path is the sequence of its names.     *)
(***************************************************************************)
EXTENDS Integers, Sequences, SequencesExt, FiniteSets

CONSTANTS
    Walkers,     \* coroutines that use the tree
    RawPaths,    \* paths as callers spell them: names, "." and ".."
    Trees,       \* the trees to start from
    MaxHops,     \* links the kernel follows in one path before ELOOP
    MaxFaults    \* requests that fail although the tree allows them

ASSUME TreeAssumption == MaxHops \in Nat /\ MaxFaults \in Nat

VARIABLES
    tree,      \* the nodes: a function from paths to [kind, to]
    fn,        \* the function each coroutine is in
    path,      \* its argument
    stack,     \* the frames of its activation, innermost first
    unclosed,  \* history: 1 for the descriptor its read_file opened, less the closes
    result,    \* how its last call ended: "none", "returned" or "threw"
    faults,    \* requests that failed although the tree allowed them
    disturbed, \* history: somebody else changed the tree during its call
    blocked,   \* history: its call met a link, or a file where it needs a directory
    escaped    \* history: its remove_all removed something outside its argument

treeVars == <<tree, fn, path, stack, unclosed, result, faults, disturbed, blocked, escaped>>

----------------------------------------------------------------------------
(* detail::normalize_path of a relative path: "." and empty parts vanish, ".."
   takes the part before it away, or stays when there is none. *)
Push(parts, part) ==
    CASE part \in {"", "."} -> parts
      [] part = ".." /\ parts # <<>> /\ parts[Len(parts)] # ".." -> Front(parts)
      [] OTHER -> Append(parts, part)
normalize_path(raw) == FoldLeft(Push, <<>>, raw)

(* detail::join_path. *)
join_path(base, name) == Append(base, name)

(* The node at p, and the path it stands for when it is a link. *)
Dir == [kind |-> "dir", to |-> <<>>]
RegularFile == [kind |-> "file", to |-> <<>>]
Link(to) == [kind |-> "link", to |-> to]
IsLink(p) == p \in DOMAIN tree /\ tree[p].kind = "link"
Target(p) == IF IsLink(p) THEN tree[p].to ELSE p

(* The kernel's walk: where a path leads when the links on the way are followed,
   and the last one not; hops counts the links. *)
Walk(p) ==
    FoldLeft(LAMBDA w, name :
                [at |-> Append(Target(w.at), name),
                 hops |-> w.hops + (IF IsLink(w.at) THEN 1 ELSE 0)],
             [at |-> <<>>, hops |-> 0], p)
Place(p) == Walk(p).at
Followed(p) == Target(Place(p))
Reaches(p) == Walk(p).hops <= MaxHops

IsDir(p) == p = <<>> \/ (p \in DOMAIN tree /\ tree[p].kind = "dir")
Children(d) == {p \in DOMAIN tree : p # <<>> /\ Front(p) = d}
Under(p, q) == Len(q) <= Len(p) /\ SubSeq(p, 1, Len(q)) = q
Without(ps) == [p \in DOMAIN tree \ ps |-> tree[p]]
With(p, node) == [q \in DOMAIN tree \cup {p} |-> IF q = p THEN node ELSE tree[q]]

----------------------------------------------------------------------------
(* The requests: whether the kernel can do them, and the tree they leave. *)
Access(p) == Reaches(p) /\ Followed(p) \in DOMAIN tree
Stat(p) == Access(p)
Realpath(p) == Access(p)
Readlink(p) == Reaches(p) /\ IsLink(Place(p))
Opendir(p) == Reaches(p) /\ IsDir(Followed(p))
OpenFile(p) == Access(p) /\ ~IsDir(Followed(p))

Vacant(p) == Reaches(p) /\ Place(p) \notin DOMAIN tree /\ IsDir(Front(Place(p)))
CanMkdir(p) == Vacant(p)
Mkdir(p) == With(Place(p), Dir)
CanSymlink(p) == Vacant(p)
Symlink(to, p) == With(Place(p), Link(to))
CanUnlink(p) == Reaches(p) /\ Place(p) \in DOMAIN tree /\ ~IsDir(Place(p))
Unlink(p) == Without({Place(p)})
CanRmdir(p) ==
    /\ Reaches(p) /\ Place(p) \in DOMAIN tree /\ IsDir(Place(p))
    /\ Children(Place(p)) = {}
Rmdir(p) == Without({Place(p)})
CanRename(p, q) ==
    /\ Reaches(p) /\ Reaches(q) /\ Place(p) \in DOMAIN tree
    /\ ~Under(Place(q), Place(p)) /\ IsDir(Front(Place(q)))
    /\ Place(q) \in DOMAIN tree => /\ IsDir(Place(p)) <=> IsDir(Place(q))
                                  /\ Children(Place(q)) = {}
Rename(p, q) ==
    LET moved == {r \in DOMAIN tree : Under(r, Place(p))}
        Moved(r) == Place(q) \o SubSeq(r, Len(Place(p)) + 1, Len(r))
        keep == DOMAIN tree \ (moved \cup {Place(q)})
    IN [r \in keep \cup {Moved(m) : m \in moved} |->
          IF r \in keep THEN tree[r]
          ELSE tree[CHOOSE m \in moved : Moved(m) = r]]
CanCopyfile(p, q) ==
    /\ OpenFile(p) /\ Reaches(q) /\ ~IsDir(Followed(q))
    /\ IsDir(Front(Followed(q)))
Copyfile(p, q) == With(Followed(q), RegularFile)

----------------------------------------------------------------------------
TreeInit ==
    /\ tree \in Trees
    /\ fn = [t \in Walkers |-> "none"] /\ path = [t \in Walkers |-> <<>>]
    /\ stack = [t \in Walkers |-> <<>>] /\ unclosed = [t \in Walkers |-> 0]
    /\ result = [t \in Walkers |-> "none"] /\ faults = 0
    /\ disturbed = [t \in Walkers |-> FALSE]
    /\ blocked = [t \in Walkers |-> FALSE] /\ escaped = [t \in Walkers |-> FALSE]

(* A request changes the tree: every other call is disturbed, but for a
   create_directories when nothing was taken away. *)
Change(t, new) ==
    /\ tree' = new
    /\ disturbed' = [u \in Walkers |->
          \/ disturbed[u]
          \/ /\ u # t /\ fn[u] # "none" /\ new # tree
             /\ fn[u] = "create_directories" => ~(DOMAIN tree \subseteq DOMAIN new)]
NoChange == UNCHANGED <<tree, disturbed>>

(* A request of the call fails although the tree allows it. *)
Fault == faults < MaxFaults /\ faults' = faults + 1 /\ NoChange
NoFault == UNCHANGED faults

(* A call starts, each coroutine makes one; it ends; its innermost frame makes
   way for the frames fs. *)
Call(t, f, p, frame) ==
    /\ fn[t] = "none"
    /\ fn' = [fn EXCEPT ![t] = f] /\ path' = [path EXCEPT ![t] = p]
    /\ stack' = [stack EXCEPT ![t] = <<frame>>]
    /\ UNCHANGED <<tree, unclosed, result, faults, disturbed, blocked, escaped>>
End(t, how) ==
    /\ stack' = [stack EXCEPT ![t] = <<>>]
    /\ result' = [result EXCEPT ![t] = how]
    /\ UNCHANGED <<fn, path>>
Replace(t, fs) ==
    LET rest == fs \o Tail(stack[t])
    IN IF rest = <<>> THEN End(t, "returned")
       ELSE /\ stack' = [stack EXCEPT ![t] = rest]
            /\ UNCHANGED <<fn, path, result>>
Frame(t) == Head(stack[t])
Cur(t) == Frame(t).cur
At(t, f, step) == fn[t] = f /\ stack[t] # <<>> /\ Frame(t).step = step
GoTo(t, step) == Replace(t, <<[Frame(t) EXCEPT !.step = step]>>)

(* A function that awaits one request: it returns, or throws. *)
Single(t, f, ok, new) ==
    /\ fn[t] = "none" /\ fn' = [fn EXCEPT ![t] = f]
    /\ \/ ok /\ Change(t, new) /\ NoFault /\ result' = [result EXCEPT ![t] = "returned"]
       \/ ~ok /\ NoChange /\ NoFault /\ result' = [result EXCEPT ![t] = "threw"]
       \/ ok /\ Fault /\ result' = [result EXCEPT ![t] = "threw"]
    /\ UNCHANGED <<path, stack, unclosed, blocked, escaped>>
stat_path(t, p) == Single(t, "stat", Stat(p), tree)
readlink(t, p) == Single(t, "readlink", Readlink(p), tree)
realpath(t, p) == Single(t, "realpath", Realpath(p), tree)
mkdir(t, p) == Single(t, "mkdir", CanMkdir(p), Mkdir(p))
remove_file(t, p) == Single(t, "remove_file", CanUnlink(p), Unlink(p))
remove_directory(t, p) == Single(t, "remove_directory", CanRmdir(p), Rmdir(p))
symlink(t, to, p) == Single(t, "symlink", CanSymlink(p), Symlink(to, p))
rename(t, p, q) == Single(t, "rename", CanRename(p, q), Rename(p, q))
copy_file(t, p, q) == Single(t, "copy_file", CanCopyfile(p, q), Copyfile(p, q))

(* exists answers false for a request that fails, whatever the reason. *)
exists(t, p) ==
    /\ fn[t] = "none" /\ fn' = [fn EXCEPT ![t] = "exists"]
    /\ \/ NoChange /\ NoFault
          /\ result' = [result EXCEPT ![t] = IF Access(p) THEN "true" ELSE "false"]
       \/ Fault /\ result' = [result EXCEPT ![t] = "false"]
    /\ UNCHANGED <<path, stack, unclosed, blocked, escaped>>

----------------------------------------------------------------------------
(* create_directories: for every part in turn exists, mkdir, and exists again
   when mkdir failed.  The frame holds the path so far and the parts to come. *)
Part(done, rest) ==
    IF rest = <<>> THEN <<>>
    ELSE <<[step |-> "exists", cur |-> join_path(done, Head(rest)), rest |-> Tail(rest)]>>
NextPart(t) == Replace(t, Part(Cur(t), Frame(t).rest))
create_directories(t, raw) ==
    /\ normalize_path(raw) # <<>>
    /\ Call(t, "create_directories", normalize_path(raw),
            Part(<<>>, normalize_path(raw))[1])

InTheWay(t) ==
    /\ blocked' = [blocked EXCEPT ![t] =
                      @ \/ (Place(Cur(t)) \in DOMAIN tree /\ ~IsDir(Place(Cur(t))))]
    /\ UNCHANGED <<unclosed, escaped>>
CreateExists(t) ==
    /\ At(t, "create_directories", "exists") /\ InTheWay(t)
    /\ \/ Access(Cur(t)) /\ NoFault /\ NoChange /\ NextPart(t)
       \/ ~Access(Cur(t)) /\ NoFault /\ NoChange /\ GoTo(t, "mkdir")
       \/ Fault /\ GoTo(t, "mkdir")
CreateMkdir(t) ==
    /\ At(t, "create_directories", "mkdir") /\ InTheWay(t)
    /\ \/ CanMkdir(Cur(t)) /\ Change(t, Mkdir(Cur(t))) /\ NoFault /\ NextPart(t)
       \/ ~CanMkdir(Cur(t)) /\ NoFault /\ NoChange /\ GoTo(t, "again")
       \/ Fault /\ GoTo(t, "again")
Recheck_Never(t) == FALSE \* (mutant)
Recheck(t) == Access(Cur(t))
CreateAgain(t) ==
    /\ At(t, "create_directories", "again") /\ InTheWay(t)
    /\ \/ Recheck(t) /\ NoFault /\ NoChange /\ NextPart(t)
       \/ ~Recheck(t) /\ NoFault /\ NoChange /\ End(t, "threw")
       \/ Fault /\ End(t, "threw")

----------------------------------------------------------------------------
(* remove_all: exists, stat, then remove_file, or open_directory, read_all,
   close, remove_all of every entry and remove_directory.  An activation is a
   frame [step, cur, due, entries]; a Directory is open in the steps "read" and
   "close" only, and is closed by its destructor when the call throws there. *)
Activation(p) == [step |-> "exists", cur |-> p, due |-> {}, entries |-> {}]
remove_all(t, p) == Call(t, "remove_all", p, Activation(p))
MeetsLink(t) ==
    /\ UNCHANGED <<unclosed, escaped>>
    /\ blocked' = [blocked EXCEPT ![t] = @ \/ IsLink(Place(Cur(t)))]
Removes(t) ==
    escaped' = [escaped EXCEPT ![t] = @ \/ ~Under(Place(Cur(t)), Place(path[t]))]

RemoveExists(t) ==
    /\ At(t, "remove_all", "exists") /\ MeetsLink(t)
    /\ \/ Access(Cur(t)) /\ NoFault /\ NoChange /\ GoTo(t, "stat")
       \/ ~Access(Cur(t)) /\ NoFault /\ NoChange /\ Replace(t, <<>>)
       \/ Fault /\ Replace(t, <<>>)
RemoveStat(t) ==
    /\ At(t, "remove_all", "stat") /\ MeetsLink(t)
    /\ \/ /\ Stat(Cur(t)) /\ NoFault /\ NoChange
          /\ GoTo(t, IF IsDir(Followed(Cur(t))) THEN "opendir" ELSE "unlink")
       \/ ~Stat(Cur(t)) /\ NoFault /\ NoChange /\ End(t, "threw")
       \/ Fault /\ End(t, "threw")
RemoveUnlink(t) ==
    /\ At(t, "remove_all", "unlink") /\ UNCHANGED <<unclosed, blocked>>
    /\ \/ /\ CanUnlink(Cur(t)) /\ NoFault /\ Change(t, Unlink(Cur(t)))
          /\ Removes(t) /\ Replace(t, <<>>)
       \/ ~CanUnlink(Cur(t)) /\ NoFault /\ NoChange /\ UNCHANGED escaped /\ End(t, "threw")
       \/ Fault /\ UNCHANGED escaped /\ End(t, "threw")
RemoveRmdir(t) ==
    /\ At(t, "remove_all", "each") /\ Frame(t).entries = {} /\ UNCHANGED <<unclosed, blocked>>
    /\ \/ /\ CanRmdir(Cur(t)) /\ NoFault /\ Change(t, Rmdir(Cur(t)))
          /\ Removes(t) /\ Replace(t, <<>>)
       \/ ~CanRmdir(Cur(t)) /\ NoFault /\ NoChange /\ UNCHANGED escaped /\ End(t, "threw")
       \/ Fault /\ UNCHANGED escaped /\ End(t, "threw")
RemoveEach(t) ==
    /\ At(t, "remove_all", "each")
    /\ \E name \in Frame(t).entries :
          Replace(t, <<Activation(join_path(Cur(t), name)),
                       [Frame(t) EXCEPT !.entries = @ \ {name}]>>)
    /\ NoFault /\ NoChange /\ UNCHANGED <<unclosed, blocked, escaped>>

(* open_directory, read_all and close, of remove_all and of read_directory. *)
Walks(t, step) == At(t, "remove_all", step) \/ At(t, "read_directory", step)
EntriesOf(p) == {q[Len(q)] : q \in Children(Followed(p))}
Opens(t) ==
    /\ Walks(t, "opendir") /\ UNCHANGED <<unclosed, blocked, escaped>>
    /\ \/ Opendir(Cur(t)) /\ NoFault /\ NoChange
          /\ Replace(t, <<[Frame(t) EXCEPT !.step = "read", !.due = EntriesOf(Cur(t))]>>)
       \/ ~Opendir(Cur(t)) /\ NoFault /\ NoChange /\ End(t, "threw")
       \/ Fault /\ End(t, "threw")

(* fs::Readdir returns a batch of entries that it has not returned before, and an
   empty one at the end.  Of what was there at the start (due) it misses nothing
   that stays; what is added or taken away meanwhile it may return or not. *)
ReadsBatch(t) ==
    /\ Walks(t, "read") /\ UNCHANGED <<unclosed, blocked, escaped>>
    /\ \/ /\ Frame(t).due \cap EntriesOf(Cur(t)) \subseteq Frame(t).entries
          /\ NoFault /\ NoChange /\ GoTo(t, "close")
       \/ /\ NoFault /\ NoChange
          /\ \E batch \in (SUBSET (Frame(t).due \cup EntriesOf(Cur(t)))) \ {{}} :
                /\ batch \cap Frame(t).entries = {}
                /\ Replace(t, <<[Frame(t) EXCEPT !.entries = @ \cup batch]>>)
       \/ Fault /\ End(t, "threw")
ClosesIt(t) ==
    /\ Walks(t, "close") /\ UNCHANGED <<unclosed, blocked, escaped>>
    /\ \/ NoFault /\ NoChange /\ GoTo(t, "each")
       \/ Fault /\ End(t, "threw")

read_directory(t, p) ==
    Call(t, "read_directory", p, [Activation(p) EXCEPT !.step = "opendir"])
ReadDirectoryReturns(t) ==
    /\ At(t, "read_directory", "each") /\ End(t, "returned")
    /\ NoFault /\ NoChange /\ UNCHANGED <<unclosed, blocked, escaped>>

----------------------------------------------------------------------------
(* fs::read_file: Open, Fstat, Read until the size or the end is reached, Close.
   Whatever throws after Open, a failing Close included, leads to the catch
   clause, which closes the descriptor synchronously. *)
read_file(t, p) ==
    Call(t, "read_file", p, [Activation(p) EXCEPT !.step = "open"])
Closes(t, n) == unclosed' = [unclosed EXCEPT ![t] = @ - n]
Catch(t) == Fault /\ Closes(t, 1) /\ End(t, "threw")
ReadFileOpen(t) ==
    /\ At(t, "read_file", "open") /\ UNCHANGED <<blocked, escaped>>
    /\ \/ /\ OpenFile(Cur(t)) /\ NoFault /\ NoChange /\ GoTo(t, "fstat")
          /\ unclosed' = [unclosed EXCEPT ![t] = 1]
       \/ ~OpenFile(Cur(t)) /\ NoFault /\ NoChange /\ End(t, "threw") /\ UNCHANGED unclosed
       \/ Fault /\ End(t, "threw") /\ UNCHANGED unclosed
ReadFileFstat(t) ==
    /\ At(t, "read_file", "fstat") /\ UNCHANGED <<blocked, escaped>>
    /\ \/ /\ NoFault /\ NoChange /\ UNCHANGED unclosed
          /\ \E step \in {"read", "close"} : GoTo(t, step) \* an empty file is not read
       \/ Catch(t)
ReadFileRead(t) ==
    /\ At(t, "read_file", "read") /\ UNCHANGED <<blocked, escaped>>
    /\ \/ /\ NoFault /\ NoChange /\ UNCHANGED unclosed
          /\ \E step \in {"read", "close"} : GoTo(t, step)
       \/ Catch(t)
ReadFileClose(t) ==
    /\ At(t, "read_file", "close") /\ UNCHANGED <<blocked, escaped>>
    /\ \/ NoFault /\ NoChange /\ Closes(t, 1) /\ End(t, "returned")
       \/ Fault /\ Closes(t, 2) /\ End(t, "threw")

----------------------------------------------------------------------------
Paths == {p \in {normalize_path(raw) : raw \in RawPaths} : p # <<>>}
TreeNext ==
    \E t \in Walkers :
        \/ \E p \in Paths :
              \/ stat_path(t, p) \/ exists(t, p) \/ readlink(t, p) \/ realpath(t, p)
              \/ mkdir(t, p) \/ remove_file(t, p) \/ remove_directory(t, p)
              \/ remove_all(t, p) \/ read_directory(t, p) \/ read_file(t, p)
              \/ \E q \in Paths : symlink(t, q, p) \/ rename(t, p, q) \/ copy_file(t, p, q)
        \/ \E raw \in RawPaths : create_directories(t, raw)
        \/ CreateExists(t) \/ CreateMkdir(t) \/ CreateAgain(t)
        \/ RemoveExists(t) \/ RemoveStat(t) \/ RemoveUnlink(t)
        \/ RemoveEach(t) \/ RemoveRmdir(t)
        \/ Opens(t) \/ ReadsBatch(t) \/ ClosesIt(t) \/ ReadDirectoryReturns(t)
        \/ ReadFileOpen(t) \/ ReadFileFstat(t) \/ ReadFileRead(t) \/ ReadFileClose(t)

(* A create_directories that meets no failing request and no link or file in its
   way, and from which nobody takes anything away, does not throw, and what it
   was asked for is there, however many of them run at once.  A remove_all that
   is alone, meets no failing request and no link does not throw, leaves nothing
   of its argument and removes nothing else.  A read_file leaves no descriptor
   open, whichever request of it fails, and closes it once when it returns; when
   its Close fails, the catch clause closes it a second time. *)
Quiet(t) == faults = 0 /\ ~disturbed[t] /\ ~blocked[t]
TreeCallsConverge ==
    \A t \in Walkers :
        /\ Quiet(t) /\ fn[t] = "create_directories" =>
              /\ result[t] # "threw"
              /\ result[t] = "returned" => Access(path[t])
        /\ Quiet(t) /\ fn[t] = "remove_all" =>
              /\ result[t] # "threw"
              /\ result[t] = "returned" => ~Access(path[t])
              /\ ~escaped[t]
        /\ fn[t] = "read_file" /\ result[t] # "none" =>
              /\ unclosed[t] <= 0
              /\ result[t] = "returned" => unclosed[t] = 0
=============================================================================
