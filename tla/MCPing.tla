------------------------------- MODULE MCPing -------------------------------
(* Ping with bytes of 3 values: a word has 9 and the accumulator 81.  The  *)
(* requests just fit a frame, and of the messages with options those with  *)
(* the most data are longer than the buffer.                               *)
EXTENDS Ping

\* The data of a request, PINGPONG.
MCData == <<2, 1>>

\* Echo requests, answers, and messages of another type, with this program's
\* id or another one, of even and odd length, one of them too short.
MCForeign ==
  {<<t, 0, 0, 0>> \o id \o <<0, 2>> \o data :
     t \in Byte, id \in {htons(ICMP_ID), <<0, 0>>}, data \in {<< >>, <<2>>, <<2, 2, 2>>}}
  \cup {<<ICMP_ECHOREPLY, 0, 0, 0>> \o htons(ICMP_ID)}

MCOptions == {<< >>, <<1, 1, 0, 2>>}
=============================================================================
