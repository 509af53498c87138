------------------------------ MODULE Directory ------------------------------
(***************************************************************************)
(* corouv::io::Directory and the requests fs::Opendir, Readdir, Closedir.  *)
(*                                                                         *)
(* fs::Readdir points the uv_dir_t at its own buffer while its request is  *)
(* in flight, so a directory must never have two requests at once.         *)
(* State::acquire admits one reader, and close refuses beside it.  As in   *)
(* File, whoever lets go of the State last closes the handle.              *)
(***************************************************************************)
EXTENDS Naturals, FiniteSets

CONSTANTS
    Readers,    \* coroutines that share the Directory
    Entries     \* what is in the directory

VARIABLES
    uv_dir,        \* the handle: "none", "open", "closed" or "again" (closed twice)
    dirHeld,       \* the application still has the Directory object
    dir,           \* State::dir is not null
    read_inflight, \* State::read_inflight
    dirClosing,    \* State::closing
    reading,       \* the request each coroutine awaits
    wants,         \* the call it is in: "read_some" or "read_all"
    unread,        \* entries the stream has not returned yet
    out,           \* entries the coroutine's call has collected
    dirCloseFailed \* history: a Closedir request failed

dirVars == <<uv_dir, dirHeld, dir, read_inflight, dirClosing, reading, wants,
             unread, out, dirCloseFailed>>

(* Every variable has its type. *)
DirectoryTypeOK ==
    /\ uv_dir \in {"none", "open", "closed", "again"}
    /\ {dirHeld, dir, read_inflight, dirClosing, dirCloseFailed} \subseteq BOOLEAN
    /\ reading \in [Readers -> {"idle", "Readdir", "Closedir"}]
    /\ wants \in [Readers -> {"read_some", "read_all"}]
    /\ unread \subseteq Entries /\ out \in [Readers -> SUBSET Entries]

DirectoryInit ==
    /\ uv_dir = "none" /\ dirHeld = FALSE /\ dir = FALSE
    /\ read_inflight = FALSE /\ dirClosing = FALSE /\ dirCloseFailed = FALSE
    /\ reading = [t \in Readers |-> "idle"]
    /\ wants = [t \in Readers |-> "read_some"]
    /\ unread = Entries /\ out = [t \in Readers |-> {}]

(* io::open_directory: fs::Opendir succeeds and the State takes the handle. *)
open_directory ==
    /\ uv_dir = "none"
    /\ uv_dir' = "open" /\ dirHeld' = TRUE /\ dir' = TRUE
    /\ UNCHANGED <<read_inflight, dirClosing, reading, wants, unread, out, dirCloseFailed>>

(* State::is_open_unlocked, and what acquire asks for beyond it. *)
dir_is_open == dir /\ ~dirClosing
MayRead_Concurrent == dir_is_open \* (mutant)
MayRead == dir_is_open /\ ~read_inflight

(* read_some (and read_one), and each round of read_all. *)
Acquire(t) ==
    /\ MayRead
    /\ read_inflight' = TRUE
    /\ reading' = [reading EXCEPT ![t] = "Readdir"]
    /\ UNCHANGED <<uv_dir, dirHeld, dir, dirClosing, unread, dirCloseFailed>>
StartRead(t, how) ==
    /\ dirHeld /\ reading[t] = "idle"
    /\ Acquire(t)
    /\ wants' = [wants EXCEPT ![t] = how] /\ out' = [out EXCEPT ![t] = {}]

(* uv_fs_closedir. *)
Closedir(d) == IF d = "open" THEN "closed" ELSE "again"

(* A coroutine ends, leaving the members as given; the last reference to the
   State runs close_sync. *)
LastReader(t) == ~dirHeld /\ \A u \in Readers \ {t} : reading[u] = "idle"
Leave(t, valid, inflight, closing, d) ==
    /\ reading' = [reading EXCEPT ![t] = "idle"]
    /\ IF LastReader(t) /\ valid
       THEN /\ dir' = FALSE /\ read_inflight' = FALSE /\ dirClosing' = FALSE
            /\ uv_dir' = Closedir(d)
       ELSE dir' = valid /\ read_inflight' = inflight /\ dirClosing' = closing
            /\ uv_dir' = d
    /\ UNCHANGED <<dirHeld, wants>>

(* fs::Readdir returns a batch, which read_some returns.  read_all keeps it and
   asks again until a batch is empty, in the same step because nothing suspends
   between release and the next acquire; it throws if its Directory is gone. *)
Readdir(t) ==
    /\ reading[t] = "Readdir"
    /\ \E batch \in SUBSET unread :
          /\ batch = {} <=> unread = {}
          /\ unread' = unread \ batch
          /\ out' = [out EXCEPT ![t] = @ \cup batch]
          /\ IF wants[t] = "read_all" /\ batch # {} /\ dirHeld
             THEN UNCHANGED <<uv_dir, dirHeld, dir, read_inflight, dirClosing, reading, wants>>
             ELSE Leave(t, dir, FALSE, dirClosing, uv_dir)
    /\ UNCHANGED dirCloseFailed

(* The request fails: the catch clause releases the directory. *)
ReaddirFails(t) ==
    /\ reading[t] = "Readdir"
    /\ Leave(t, dir, FALSE, dirClosing, uv_dir)
    /\ UNCHANGED <<unread, out, dirCloseFailed>>

(* Directory::close.  A second close finds is_open_unlocked false and returns
   at once, before the first is through. *)
MayCloseDir == dir_is_open /\ ~read_inflight
CloseDirectory(t) ==
    /\ dirHeld /\ reading[t] = "idle" /\ MayCloseDir
    /\ dirClosing' = TRUE
    /\ reading' = [reading EXCEPT ![t] = "Closedir"]
    /\ UNCHANGED <<uv_dir, dirHeld, dir, read_inflight, wants, unread, out, dirCloseFailed>>
CloseDone(t) ==
    /\ reading[t] = "Closedir"
    /\ Leave(t, FALSE, read_inflight, FALSE, Closedir(uv_dir))
    /\ UNCHANGED <<unread, out, dirCloseFailed>>
CloseDirFails(t) ==
    /\ reading[t] = "Closedir"
    /\ \E d \in {uv_dir, Closedir(uv_dir)} : Leave(t, dir, read_inflight, FALSE, d)
    /\ dirCloseFailed' = TRUE
    /\ UNCHANGED <<unread, out>>

(* ~Directory, or an assignment to it. *)
DropDirectory ==
    /\ dirHeld /\ dirHeld' = FALSE
    /\ IF dir /\ \A t \in Readers : reading[t] = "idle"
       THEN /\ dir' = FALSE /\ read_inflight' = FALSE /\ dirClosing' = FALSE
            /\ uv_dir' = Closedir(uv_dir)
       ELSE UNCHANGED <<dir, read_inflight, dirClosing, uv_dir>>
    /\ UNCHANGED <<reading, wants, unread, out, dirCloseFailed>>

DirectoryNext ==
    \/ open_directory
    \/ DropDirectory
    \/ \E t \in Readers :
          \/ \E how \in {"read_some", "read_all"} : StartRead(t, how)
          \/ Readdir(t) \/ ReaddirFails(t)
          \/ CloseDirectory(t) \/ CloseDone(t) \/ CloseDirFails(t)

(* A directory has one request in flight at most, and only on an open handle;
   the handle is closed once, unless a Closedir request failed, and is closed
   when nobody has the State any more. *)
OneRequestPerDirectory ==
    /\ \A t, u \in Readers : reading[t] # "idle" /\ reading[u] # "idle" => t = u
    /\ ~dirCloseFailed => /\ uv_dir # "again"
                          /\ \A t \in Readers : reading[t] # "idle" => uv_dir = "open"
    /\ ~dirHeld /\ (\A t \in Readers : reading[t] = "idle") => uv_dir # "open"
=============================================================================
