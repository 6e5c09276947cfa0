-------------------------- MODULE MCControlBoard --------------------------
EXTENDS ControlBoard

\* The ends of the Q15 range; the servos start at neutral.
MCRefs == {-32768, 32767}

\* Each command on its own, and an upgrade with a command behind it.
MCBatches == {<<cmd>> : cmd \in Commands \ {"CMD_LOAD_PARAMS", "CMD_SAVE_PARAMS"}}
                 \cup {<<"CMD_UPGRADE", "CMD_ID_TARGET">>,
                       <<"CMD_UPGRADE", "CMD_GET_SENSOR_DATA">>,
                       <<"CMD_UPGRADE", "CMD_UPGRADE">>}

\* The stream alone.
MCStreamBatches == {<<"CMD_START_DATA_STREAM">>, <<"CMD_STOP_DATA_STREAM">>}
=============================================================================
