--------------------------- MODULE MC_ClientTools ---------------------------
(* Inputs of send_gearman, arguments, statuses and responses for check_gearman. *)
EXTENDS ClientTools

MCInputs ==
    {<<"good", "good", "good", "eof">>, <<"good", "bad", "good", "eof">>,
     <<"good", "blank", "good", "eof">>, <<"good", "error">>, <<"good", "silence">>}

Check(queue, critZeroWorker) ==
    [send |-> "no", host |-> TRUE, queue |-> queue, critZeroWorker |-> critZeroWorker,
     expect |-> FALSE, jobWarning |-> 2, jobCritical |-> 3, workerWarning |-> 0,
     workerCritical |-> 12]

Send(how, expect) ==
    [Check(2, 1) EXCEPT !.send = how, !.expect = expect]

MCArgSets ==
    {Check(AnyQueue, 1), Check(2, 1), [Check(AnyQueue, 0) EXCEPT !.workerWarning = 1],
     Send("job", FALSE), Send("job", TRUE), Send("background", FALSE),
     [Send("job", FALSE) EXCEPT !.queue = AnyQueue]}

Queue(name, total, running, workers) ==
    [name |-> name, total |-> total, running |-> running, workers |-> workers]

MCStatuses ==
    {<<>>, <<Queue(Dummy, 0, 0, 0)>>}
      \cup {<<Queue(3, total, 1, workers), Queue(Dummy, 0, 0, 0), Queue(2, total2, 0, workers2)>> :
              total \in {1, 4}, workers \in {0, 9, 12}, total2 \in {0, 2}, workers2 \in {0, 1, 10}}

MCResponses ==
    {[empty |-> TRUE, code |-> NoCode, expected |-> FALSE]}
      \cup [empty : {FALSE}, code : {NoCode, 48, 50, 32}, expected : BOOLEAN]
=============================================================================
