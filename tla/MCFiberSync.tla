---------------------------- MODULE MCFiberSync ----------------------------
(***************************************************************************)
(* FiberSync for TLC: small programs of three or four fibers.              *)
(***************************************************************************)
EXTENDS FiberSync

\* A program in which the fibers f1, f2, ... have these scripts.
Program(roots, scripts) ==
    [roots |-> roots, stops |-> FALSE,
     script |-> [f \in Fibers |-> IF f \in DOMAIN scripts THEN scripts[f] ELSE <<>>]]

\* Three fibers contend for the mutex; one yields inside, one throws in the end.
Contend == Program(<<1, 2, 3>>,
    << <<<<"lock">>, <<"yield">>, <<"unlock">>>>,
       <<<<"lock">>, <<"unlock">>>>,
       <<<<"lock">>, <<"unlock">>, <<"throw">>>> >>)

\* Two waiters, and a notifier that notifies each, or all at once.
NotifyEach == Program(<<1, 2, 3>>,
    << <<<<"lock">>, <<"take">>, <<"unlock">>>>,
       <<<<"lock">>, <<"take">>, <<"unlock">>>>,
       <<<<"lock">>, <<"give">>, <<"unlock">>, <<"notify", FALSE>>,
         <<"lock">>, <<"give">>, <<"unlock">>, <<"notify", FALSE>>>> >>)

NotifyEveryone == Program(<<1, 2, 3>>,
    << <<<<"lock">>, <<"take">>, <<"unlock">>>>,
       <<<<"lock">>, <<"take">>, <<"unlock">>>>,
       <<<<"lock">>, <<"give">>, <<"give">>, <<"unlock">>, <<"notify", TRUE>>>> >>)

\* The tasks are announced before they start; the group is used twice.
AddFirst == Program(<<1>>,
    << <<<<"add", 2>>, <<"go", 2>>, <<"go", 3>>, <<"join">>,
         <<"add", 1>>, <<"go", 4>>, <<"join">>>>,
       <<<<"work">>, <<"done">>>>,
       <<<<"yield">>, <<"work">>, <<"done">>>>,
       <<<<"work">>, <<"done">>>> >>)

\* Each task is announced before it starts, in a loop.
AddEach == Program(<<1>>,
    << <<<<"add", 1>>, <<"go", 2>>, <<"add", 1>>, <<"go", 3>>, <<"join">>>>,
       <<<<"work">>, <<"done">>>>,
       <<<<"work">>, <<"done">>>> >>)

\* The pool is stopped at any time while fibers contend, join and start others.
Stopped == [Program(<<1, 2>>,
    << <<<<"add", 1>>, <<"go", 3>>, <<"join">>>>,
       <<<<"lock">>, <<"yield">>, <<"unlock">>>>,
       <<<<"lock">>, <<"unlock">>, <<"work">>, <<"done">>>> >>)
    EXCEPT !.stops = TRUE]

AllButAddEach == {Contend, NotifyEach, NotifyEveryone, AddFirst, Stopped}

OnlyAddEach == {AddEach}
=============================================================================
