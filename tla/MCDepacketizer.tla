---------------------------- MODULE MCDepacketizer ----------------------------
(***************************************************************************)
(* Packets of up to four bytes, a buffer of seven.  The NAL units: one of  *)
(* a single packet that ends an access unit, one that just fills a packet, *)
(* one of two fragments, one of three that is cut off at the buffer's end. *)
(* Sequence numbers wrap behind the second packet; the sixth has the       *)
(* number of the first.                                                    *)
(***************************************************************************)
EXTENDS Depacketizer

MCNALs == { <<>>, <<65>>, <<103, 1, 2, 3>>, <<101, 4, 5, 6, 7>>,
            <<6, 8, 9, 10, 11, 12, 13, 14>> }

MCFirstSeqNos == {3}
=============================================================================
