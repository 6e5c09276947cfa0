--------------------------- MODULE DataDecoding ---------------------------
(***************************************************************************)
(* The decoding library of the BeagleBone programs                         *)
(* (bbones/shared/data_decoding.c): two copies, ping and pong, of every    *)
(* message the system knows, one written by data_decode and one read by    *)
(* the program, exchanged by switch_read_write.                            *)
(*                                                                         *)
(* A stream is the content of a program's input array: the start byte is   *)
(* right or not, the checksums agree or not, and n tells which message the *)
(* rest comes from; n = 0 are the zeros of a static structure.             *)
(***************************************************************************)
EXTENDS Integers

\* enum Sender_id, as far as data_to_struct tells senders apart, with the
\* messages it knows of each.
KnownIds ==
    [LISA |-> {"SVINFO", "SYSMON", "AIRSPEED_ETS", "ACTUATORS", "GPS_INT",
               "IMU_GYRO_RAW", "IMU_ACCEL_RAW", "IMU_MAG_RAW", "UART_ERRORS",
               "BARO_RAW"},
     BONE_PLANE |-> {"BEAGLE_ERROR"},
     BONE_WIND  |-> {"NMEA_IIMWV_ID", "NMEA_WIXDR_ID"},
     BONE_ARM   |-> {"LINE_ANGLE_ID"}]

Senders == DOMAIN KnownIds
Ids == UNION {KnownIds[s] : s \in Senders}

Halves == {"ping", "pong"}

\* Which message of which kind the bytes of a field come from.
Value == [id : Ids, n : Nat]
Zeros(id) == [id |-> id, n |-> 0]

Stream == [start : BOOLEAN, sum : BOOLEAN, sender : Senders, id : Ids, n : Nat]

Decoder == [read : Halves, write : Halves, data : [Halves -> [Ids -> Value]]]

init_decoding ==
    [read |-> "ping", write |-> "pong",
     data |-> [h \in Halves |-> [id \in Ids |-> Zeros(id)]]]

\* Fault: the two halves become one.
switch_read_write_ReadOnly(d) == [d EXCEPT !.read = d.write]

switch_read_write(d) == [d EXCEPT !.read = d.write, !.write = d.read]

\* What the program sees through get_read_pointer().
get_read_pointer(d) == d.data[d.read]

\* The field of the structure that a message is copied into.
FieldsWritten(id) == {id}

\* data_write copies the message into its field of the half being written.
data_write(d, stream) ==
    [d EXCEPT !.data[d.write] =
        [id \in Ids |-> IF id \in FieldsWritten(stream.id)
                          THEN [id |-> stream.id, n |-> stream.n]
                          ELSE @[id]]]

\* The checks of data_decode and of data_to_struct, in their order.
DecodeError(stream) ==
    CASE ~stream.start -> "DEC_ERR_START_BYTE"
      [] stream.start /\ ~stream.sum -> "DEC_ERR_CHECKSUM"
      [] OTHER -> IF stream.id \in KnownIds[stream.sender]
                    THEN "DEC_ERR_NONE" ELSE "DEC_ERR_UNKNOWN"

data_decode(d, stream) ==
    IF DecodeError(stream) = "DEC_ERR_NONE" THEN data_write(d, stream) ELSE d

=============================================================================
