---------------------------- MODULE WorkWatcher ----------------------------
(***************************************************************************)
(* The ManifestWorkWatcher: an unbuffered channel between those who call   *)
(* Receive, the agent's event handlers and the Patch calls of its          *)
(* controllers, and the reflector of the informer, which reads it until    *)
(* the informer is stopped and stops the watcher then.                     *)
(*                                                                         *)
(* Stop closes the channel done, and Receive does not look at it: a call   *)
(* that waits, or comes later, waits for ever.                             *)
(***************************************************************************)
CONSTANT Callers

VARIABLES
    informer,  \* "created", "watching" or "stopped"
    waiting    \* the callers whose Receive waits for the reflector

watcherVars == <<informer, waiting>>

WatcherTypeOK ==
    /\ informer \in {"created", "watching", "stopped"}
    /\ waiting \subseteq Callers

WatcherInit == informer = "created" /\ waiting = {}

Receive(c) ==
    /\ c \notin waiting
    /\ waiting' = waiting \cup {c}
    /\ UNCHANGED informer

\* The reflector's list is over and it watches.
Watch ==
    /\ informer = "created" /\ informer' = "watching"
    /\ UNCHANGED waiting

Take(c) ==
    /\ informer = "watching" /\ c \in waiting
    /\ waiting' = waiting \ {c}
    /\ UNCHANGED informer

Stop ==
    /\ informer = "watching" /\ informer' = "stopped"
    /\ UNCHANGED waiting
=============================================================================
