----------------------------- MODULE MCOperations -----------------------------
(* The operations a coroutine awaits one at a time, in one run: File,
   Directory, the path functions, FileWatcher, poll::wait, blocking::run,
   with_cancellation, AsyncQueue and sql::Connection.  They share
   no state of the library, so that a behaviour of their product is one
   behaviour of each: a behaviour of this specification picks a part and moves
   that part only. *)
EXTENDS File, Directory, FileTree, FileWatcher, PollWait, BlockingWork, CancelScope,
        AsyncQueue, SqlConnection

VARIABLE part

MCRawPaths == {<<"a">>, <<"b">>, <<"b", "..", "a", ".", "a">>, <<"b", "a">>}
MCTrees ==
    {<<>>,
     <<"a">> :> Dir @@ <<"a", "a">> :> RegularFile @@ <<"b">> :> Dir,
     <<"a">> :> Dir @@ <<"a", "a">> :> Link(<<"b">>) @@ <<"b">> :> Dir
        @@ <<"b", "a">> :> RegularFile}

Init ==
    /\ part \in {"File", "Directory", "FileTree", "FileWatcher", "PollWait",
                 "BlockingWork", "CancelScope", "AsyncQueue", "SqlConnection"}
    /\ FileInit /\ DirectoryInit /\ TreeInit /\ WatcherInit
    /\ PollInit /\ BlockingInit /\ ScopeInit /\ QueueInit /\ SqlInit
    /\ part # "File" => size = 0
    /\ part # "FileTree" => tree = <<>>
    /\ part # "FileWatcher" => backend = "event"
    /\ part # "CancelScope" => ~hasSlot /\ token = [k \in Scopes |-> {}]
    /\ part # "AsyncQueue" => hasSlots

Moves(p) == part = p /\ UNCHANGED part
Files == <<fileVars, dirVars, treeVars, watchVars>>
Waits == <<pollVars, workVars, scopeVars>>
Channels == <<asyncQueueVars, sqlVars>>

Next ==
    \/ Moves("File") /\ FileNext /\ UNCHANGED <<dirVars, treeVars, watchVars, Waits, Channels>>
    \/ Moves("Directory") /\ DirectoryNext /\ UNCHANGED <<fileVars, treeVars, watchVars, Waits, Channels>>
    \/ Moves("FileTree") /\ TreeNext /\ UNCHANGED <<fileVars, dirVars, watchVars, Waits, Channels>>
    \/ Moves("FileWatcher") /\ WatcherNext /\ UNCHANGED <<fileVars, dirVars, treeVars, Waits, Channels>>
    \/ Moves("PollWait") /\ PollNext /\ UNCHANGED <<workVars, scopeVars, Files, Channels>>
    \/ Moves("BlockingWork") /\ BlockingNext /\ UNCHANGED <<pollVars, scopeVars, Files, Channels>>
    \/ Moves("CancelScope") /\ ScopeNext /\ UNCHANGED <<pollVars, workVars, Files, Channels>>
    \/ Moves("AsyncQueue") /\ QueueNext /\ UNCHANGED <<sqlVars, Files, Waits>>
    \/ Moves("SqlConnection") /\ SqlNext /\ UNCHANGED <<asyncQueueVars, Files, Waits>>

Spec == Init /\ [][Next]_<<part, Files, Waits, Channels>>
=============================================================================
