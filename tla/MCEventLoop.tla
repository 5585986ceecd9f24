---------------------------- MODULE MCEventLoop ----------------------------
(* Small sets of registrations for TLC.                                    *)
EXTENDS EventLoop

Mixed == {<<"task", "task">>, <<"task", "condition">>, <<"condition", "condition">>, <<"timer", "timer">>,
          <<"timer", "condition">>, <<"frame", "frame">>, <<"event", "event">>,
          <<"task", "task", "task">>}

Waiting == {<<"task", "task">>, <<"timer", "task">>}
=============================================================================
