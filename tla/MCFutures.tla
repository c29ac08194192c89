----------------------------- MODULE MCFutures -----------------------------
(***************************************************************************)
(* Futures for TLC: small programs, and what they are to answer.           *)
(***************************************************************************)
EXTENDS Futures

CONSTANTS s1, s2, s3, s4, s5, s6

\* A program in which the client i has the i-th of these scripts.
Program(scripts) == [t \in Threads |-> IF t \in DOMAIN scripts THEN scripts[t] ELSE <<>>]

\* A chain on the pool, with a continuation that throws or not, and an error
\* handler on the pool too.
Pipeline(c) == Program(
    << <<<<"via", s1, "pool">>, <<"then", s1, s2, "onPool">>, <<"then", s2, s3, c>>,
         <<"recover", s3, s4, "onPool">>, <<"get", s4>>>>,
       <<<<"produce", s1>>>> >>)

\* A continuation that returns a future or throws; and another future, taken
\* when ready.
Nested == Program(
    << <<<<"flatMap", s1, s3, s2>>, <<"then", s3, s4, "f">>, <<"get", s4>>>>,
       <<<<"produce", s1>>, <<"getReady", s6>>>>,
       <<<<"produce", s2>>, <<"produce", s6>>>> >>)

\* A value that is computed on the pool, where the chain goes on, or an error.
Computed == Program(
    << <<<<"execute", "pool", s1>>, <<"then", s1, s2, "onPool">>, <<"then", s2, s3, "onPool">>,
         <<"get", s3>>>> >>)

\* Three inputs, one of them ready from the start; each may fail, and all may.
Combined(combinator) == Program(
    << <<<<"execute", "inline", s3>>, <<combinator, <<s1, s2, s3>>, s4>>, <<"get", s4>>>>,
       <<<<"produce", s1>>>>,
       <<<<"produce", s2>>>> >>)

\* All of no inputs.
NoInputs == Program(<< <<<<"all", <<>>, s4>>, <<"then", s4, s5, "f">>, <<"get", s5>>>> >>)

\* One thread, and an executor that it runs by hand.
ByHand == Program(
    << <<<<"via", s1, "manual">>, <<"then", s1, s2, "byHand">>, <<"then", s2, s3, "byHand">>,
         <<"produce", s1>>, <<"run", 1>>, <<"run", -1>>, <<"getReady", s3>>>> >>)

AllPrograms == {Pipeline("onPool"), Pipeline("throws"), Nested, Computed, Combined("all"),
                Combined("firstOf"), NoInputs, ByHand}

-----------------------------------------------------------------------------

\* What a future may be fulfilled with, from what it was made of.
RECURSIVE Outcomes(_)
Outcomes(s) ==
    LET how == origin[s]
        inputs == how[2]
        given == UNION {Outcomes(inputs[i]) : i \in DOMAIN inputs}
        values == {r \in given : r.ok}
    IN  CASE how[1] \in {"none", "execute"} -> {}
          [] how[1] = "made" -> {how[2]}
          [] how[1] = "then" -> {IF r.ok THEN Applied(how[4], r.val) ELSE r : r \in Outcomes(how[2])}
          [] how[1] = "recover" ->
                {IF r.ok THEN Error(<<"none">>) ELSE Applied(how[4], r.val) : r \in Outcomes(how[2])}
          [] how[1] = "flatMap" ->
                {r \in Outcomes(how[2]) : ~ r.ok}
                \cup (IF \E r \in Outcomes(how[2]) : r.ok THEN Outcomes(how[4]) ELSE {})
          [] how[1] = "all" ->
                IF values = given
                THEN {Value(FlattenSeq([i \in DOMAIN inputs |-> (CHOOSE r \in Outcomes(inputs[i]) : TRUE).val]))}
                ELSE given \ values
          [] how[1] = "firstOf" -> IF values # {} THEN values ELSE given

\* The future that the client waits for in a program.
Asked(t) == IF origin[s5][1] # "none" THEN s5 ELSE IF origin[s4][1] # "none" THEN s4 ELSE s3

\* GetResult and GetReadyResult answer what the pipeline says: All the values
\* in the order of its inputs or an error of one, FirstOf a value of one or, if
\* there is none, an error.
AnswerIsRight == \A t \in Clients : answer[t] # Null =>
    answer[t] \in Outcomes(IF t = 1 THEN Asked(t) ELSE s6)

\* A continuation runs on the executor that Via chose last, which the futures
\* of a chain inherit.
OnTheirExecutor == \A t \in Threads :
    Doing(t, "call") /\ Arg(t, 2)[1] \in {"then", "recover"} =>
        /\ Arg(t, 2)[3] = "onPool" => t \in Workers
        /\ Arg(t, 2)[3] = "byHand" => <<"pop">> \in ToSet(todo[t])
=============================================================================
