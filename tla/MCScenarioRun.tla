---------------------------- MODULE MCScenarioRun ----------------------------
EXTENDS ScenarioRun

\* Short documents over every kind of step, valid ones and one that is not.
Givens == {<<>>, <<"test_actor.create">>, <<"world.set_block", "assert.block">>}
Whens == {<<>>, <<"player.chat">>, <<"player.move", "wait">>, <<"player.move: null">>}
Thens == {<<>>, <<"assert.event", "assert.no_log">>, <<"world.set_block">>,
  <<"assert.event", "assert.no_log: null">>}
Cleanups == {<<>>, <<"test_actor.disconnect_all">>, <<"test_actor.disconnect_all", "world.set_block">>}
Expectations == {None} \cup
  [status : {"completed", "failed", "timed_out"}, code : {NoCode}] \cup
  [status : {"failed"}, code : {Unavailable, "REGION_NOT_ALLOWED"}]

MCDocuments == [given : Givens, when : Whens, then : Thens, cleanup : Cleanups, expect : Expectations]
=============================================================================
