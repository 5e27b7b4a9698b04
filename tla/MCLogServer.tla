---------------------------- MODULE MCLogServer ----------------------------
(* LogServer for TLC: two logs, and the config files of an operator who adds, *)
(* freezes, drains and takes out logs and makes mistakes.                     *)
EXTENDS LogServer

LogBlock(id, prefix, state) ==
    [id |-> id, prefix |-> prefix, state |-> state,
     keys |-> TRUE, times |-> TRUE, loads |-> TRUE]

BothActive   == <<LogBlock(1, "a", "ACTIVE"), LogBlock(2, "b", "ACTIVE")>>
FirstFrozen  == <<LogBlock(1, "a", "FROZEN"), LogBlock(2, "b", "ACTIVE")>>
LastDraining == <<LogBlock(2, "a", "ACTIVE"), LogBlock(1, "b", "DRAINING")>>
OneLog       == <<LogBlock(2, "b", "ACTIVE")>>
SharedId     == <<LogBlock(1, "a", "ACTIVE"), LogBlock(2, "b", "ACTIVE"), LogBlock(1, "c", "ACTIVE")>>
SharedPrefix == <<LogBlock(1, "a", "ACTIVE"), LogBlock(2, "a", "ACTIVE")>>
LastDeleted  == <<LogBlock(1, "a", "ACTIVE"), LogBlock(2, "b", "DEPRECATED_SOFT_DELETED")>>
ZeroId       == <<LogBlock(0, "a", "ACTIVE")>>
BadKey       == <<[LogBlock(1, "a", "ACTIVE") EXCEPT !.keys = FALSE]>>
BadTime      == <<[LogBlock(2, "b", "ACTIVE") EXCEPT !.times = FALSE]>>
BadState     == <<LogBlock(1, "a", "other")>>
BadRoots     == <<LogBlock(1, "a", "ACTIVE"), [LogBlock(2, "b", "ACTIVE") EXCEPT !.loads = FALSE]>>

Files ==
    {BothActive, FirstFrozen, LastDraining, OneLog, SharedId, SharedPrefix, LastDeleted,
     ZeroId, BadKey, BadTime, BadState, BadRoots, <<>>}

=============================================================================
