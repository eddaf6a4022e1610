---------------------------- MODULE MCFrameCodec ----------------------------
(* Instance of FrameCodec: bytes of 16 values, a header of 3 bytes, payloads *)
(* of at most 4.  The data of some messages look like headers and frames.    *)
EXTENDS FrameCodec

Text == <<1, 7>>
MCJson == {Text, <<5, 5, 5, 5, 5>>}
MCMessages ==
    { Control(1, Text), Control(Ping, <<>>),
      Control(3, <<5, 5, 5, 5, 5>>),
      [type |-> Data, id |-> 7, body |-> <<>>],
      [type |-> Data, id |-> 0, body |-> <<8, 0>>],
      [type |-> Data, id |-> 20, body |-> <<7, 8>>] }
=============================================================================
