---------------------------- MODULE MCMetadata ----------------------------
(* Bytes of 12 values: up to five bytes hold a number below 12^4 = 20736.   *)
(* A header of version 1 is 3, 4 or 5.                                      *)
EXTENDS Metadata

\* The last number of one byte and the first of two, adjacent; the first of four;
\* the last 32-bit number and the one after it; one that 32 bits do not tell from 6.
MCIds == {5, 6, 144, 20735, 20736, 20742}

\* No name; the longest for set_card_name.  Longer ones, whose length in the
\* header is that of no name and of a name of one byte, and what is left of them
\* is read as ranges; one that changes the version; one as long as a byte counts.
MCNames == {<<>>, <<3, 3>>, <<7, 8, 1>>, <<3, 7, 8, 1>>, <<3, 3, 3, 3, 3, 3>>,
            <<7, 8, 0, 7, 8, 0, 7, 8, 0, 7, 8, 0>>}

\* No header; another version; a name cut short; two overlapping ranges at
\* the limit; two that exceed it and leave few wallets; two apart that exceed it;
\* a range that does so alone; a number without end; an indefinite and an
\* overlong length.
MCBlobs == {<<>>, <<9, 0, 0>>, <<4>>, <<3, 4, 2, 5, 1>>, <<3, 4, 2, 4, 2>>, <<3, 0, 3, 5, 3>>,
            <<4, 3, 0, 7, 6>>, <<3, 5, 7>>, <<3, 6, 0>>, <<3, 11, 0, 0, 0, 0, 0, 0>>}

\* Every 32-bit number is decoded as it was encoded.
ASSUME NumbersRoundTrip ==
  \A n \in 0 .. U32 - 1 :
    decode_ber_length(encode_ber_length(n), 1)
      = [value |-> n, next |-> Len(encode_ber_length(n)) + 1]
=============================================================================
