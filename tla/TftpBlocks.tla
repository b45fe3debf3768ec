------------------------------ MODULE TftpBlocks ------------------------------
(***************************************************************************)
(* The arithmetic of TFTP blocks (attos/net/tftp.h) and the datagrams of   *)
(* client and server.  A file is a sequence of bytes; block numbers are    *)
(* unsigned integers of a width that is a parameter (uint16_t: 65536).     *)
(***************************************************************************)
EXTENDS Naturals, SequencesExt

CONSTANTS
    BlockSize,   \* tftp::block_size
    Uint16       \* number of values of uint16_t

ASSUME BlockSizeAssumption == BlockSize \in Nat \ {0}
ASSUME Uint16Assumption    == Uint16 \in Nat /\ Uint16 >= 3

uint16_t(n) == n % Uint16
UINT16_MAX == Uint16 - 1

legal_size(size) == size <= BlockSize * (UINT16_MAX - 1)

\* Mutant: a file that fills its last block gets no empty block behind it.
block_count_rounded_up(size) == uint16_t((size + BlockSize - 1) \div BlockSize)

block_count(size) == uint16_t((size + BlockSize) \div BlockSize)

\* The bytes of block n of a file.
BlockOf(data, n) ==
    SubSeq(data, (n - 1) * BlockSize + 1, Min({n * BlockSize, Len(data)}))

Rrq(f)     == [op |-> "rrq", file |-> f]
Wrq(f)     == [op |-> "wrq", file |-> f]
Data(n, b) == [op |-> "data", block |-> n, bytes |-> b]
Ack(n)     == [op |-> "ack", block |-> n]
Error      == [op |-> "error"]
===============================================================================
