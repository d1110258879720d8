----------------------------- MODULE MCRefresher -----------------------------
(* Small instances of Refresher for TLC.                                   *)
EXTENDS Refresher, TLC

CONSTANTS a, b, c, t1, t2

ThreadSymmetry == Permutations(Threads)

Document(isPrimary, members, primary) ==
    [ok |-> TRUE, inSet |-> TRUE, ismaster |-> isPrimary,
     secondary |-> ~isPrimary, hidden |-> FALSE, hosts |-> members,
     passives |-> {}, primary |-> primary]

NotReady(members) ==
    [Document(FALSE, members, NoHost) EXCEPT !.secondary = FALSE]

HiddenMember(members) ==
    [Document(TRUE, members, NoHost) EXCEPT !.hidden = TRUE]

OtherSet == [Document(TRUE, Hosts, NoHost) EXCEPT !.inSet = FALSE]

\* a may be the primary of {a, b} or of all three hosts; b a secondary that
\* knows the primary or does not, or a primary of {b, c}; c is found only
\* through the others.
ReconfigAnswers ==
    [h \in Hosts |->
        CASE h = a -> {Document(TRUE, {a, b}, a), Document(TRUE, Hosts, a),
                       Document(FALSE, {a, b}, NoHost)}
          [] h = b -> {Document(FALSE, Hosts, c), Document(TRUE, {b, c}, b),
                       NotReady({a, b})}
          [] h = c -> {Document(FALSE, Hosts, NoHost), OtherSet,
                       HiddenMember(Hosts)}]

\* Two hosts: a is the primary or a secondary that hints at b, b the primary of
\* a set without a, or of another set.
SplitAnswers ==
    [h \in Hosts |->
        IF h = a THEN {Document(TRUE, {a, b}, a), Document(FALSE, {a, b}, b)}
                 ELSE {Document(TRUE, {b}, b), OtherSet}]
=============================================================================
