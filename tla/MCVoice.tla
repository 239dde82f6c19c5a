-------------------------------- MODULE MCVoice --------------------------------
(***************************************************************************)
(* The machines of Voice on small instances.                                        *)
(***************************************************************************)
EXTENDS Voice

Sitting(s, f, c, d) == [sessions |-> s, faults |-> f, cancels |-> c, crashes |-> d]
Trouble(s, l) == [speech |-> s, losses |-> l]
Loss(l, d, m, w, p, c, s) ==
    [losses |-> l, dials |-> d, leaves |-> m, writes |-> w, pumps |-> p, calls |-> c, slow |-> s]

Program(music, voice, flushes, faults, mix, close) ==
    [blocks |-> [music |-> music, voice |-> voice], flushes |-> flushes, faults |-> faults,
     mixed |-> mix, close |-> close]

SmallSittings == {Sitting(1, 2, 1, 1), Sitting(2, 2, 0, 0), Sitting(2, 0, 1, 0)}
SmallTroubles == {Trouble(1, 0), Trouble(0, 1)}
SmallLosses == {Loss(1, 1, 1, 0, 0, 0, 0), Loss(1, 0, 1, 1, 0, 0, 0), Loss(1, 0, 0, 0, 1, 0, 1),
                Loss(1, 0, 0, 0, 0, 1, 0), Loss(2, 0, 0, 0, 0, 0, 0), Loss(1, 2, 0, 0, 0, 0, 0),
                Loss(0, 0, 2, 0, 0, 0, 0)}
SmallPrograms == {Program(2, 2, 2, 0, TRUE, FALSE), Program(2, 1, 1, 1, FALSE, TRUE)}
OneProgram == {Program(1, 0, 0, 0, FALSE, FALSE)}
OneSitting == {Sitting(1, 1, 1, 1)}
OneSpeech == {Trouble(1, 0)}
OneLoss == {Loss(1, 0, 0, 0, 0, 2, 0)}
AllParts == {"conversation", "playout", "recovery", "bus", "message"}
LiveParts == {"conversation", "playout", "recovery"}
OnlyPlayout == {"playout"}
=============================================================================
