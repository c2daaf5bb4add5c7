------------------------------ MODULE FatChain ------------------------------
(***************************************************************************)
(* The file allocation table of FAT (internal/fat) and exFAT               *)
(* (internal/exfat): an entry holds the cluster that follows, or a mark.   *)
(***************************************************************************)
EXTENDS Naturals, Sequences, SequencesExt, Functions

(* FollowFATChain: it stops at the end mark, at a value that is not a       *)
(* cluster of the heap and at a cluster it has seen; only the first is no   *)
(* error.                                                                   *)
FollowFATChain(entry, heap, eoc, first) ==
  LET Go[chain \in Seq(heap)] ==
        LET next == entry[Last(chain)]
        IN IF next \in heap /\ next \notin Range(chain)
           THEN Go[Append(chain, next)]
           ELSE [chain |-> chain, ok |-> next = eoc]
  IN IF first \in heap THEN Go[<<first>>] ELSE [chain |-> <<>>, ok |-> FALSE]

(* ReadFATEntry of FAT12: three digits of four bits each, cut out of the    *)
(* two bytes at three halves of the cluster number.  The marks are the      *)
(* eight highest values (end) and the one below (bad).                      *)
Byte(nibbles, base, k) == nibbles[2 * k] + base * nibbles[2 * k + 1]

Fat12Entry(nibbles, base, cluster) ==
  LET off == (cluster * 3) \div 2
      word == Byte(nibbles, base, off) + base * base * Byte(nibbles, base, off + 1)
  IN IF cluster % 2 = 1 THEN word \div base ELSE word % (base * base * base)

(* The first count clusters of a file, counted on from its first cluster.   *)
Contiguous(first, count, heap) ==
  SelectSeq([i \in 1 .. count |-> first + i - 1], LAMBDA c : c \in heap)

(* FileClusterList of FAT: clusters that the chain lacks are guessed to     *)
(* follow its first cluster, up to the end of the heap.                     *)
FatClusterList(chain, first, needed, heap) ==
  LET known == IF chain = <<>> THEN <<first>> ELSE chain
      guessed == [i \in 1 .. needed - Len(known) |-> first + Len(known) + i - 1]
  IN IF Len(known) >= needed THEN SubSeq(known, 1, needed)
     ELSE known \o SelectSeq(guessed, LAMBDA c : c \in heap)

(* FileClusterList of exFAT: a file without a chain is contiguous.          *)
ExfatClusterList(noChain, chain, first, needed, heap) ==
  IF noChain THEN Contiguous(first, needed, heap)
  ELSE SubSeq(chain, 1, IF Len(chain) < needed THEN Len(chain) ELSE needed)
=============================================================================
