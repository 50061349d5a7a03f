------------------------------ MODULE FrameShards -----------------------------
(***************************************************************************)
(* What videoBroadcastThread() and audioBroadcastThread() (stream.cpp)     *)
(* make of an encoded frame and of an audio packet.  A frame is cut into   *)
(* blocks and these into shards, parity shards are added, and every shard  *)
(* gets a sequence number and the numbers that let the client put the      *)
(* frame together.  Audio packets get parity in groups of four.            *)
(*                                                                         *)
(* Sizes are in units of which "Block" make a shard.                       *)
(***************************************************************************)
EXTENDS Integers, Sequences, FiniteSets, SequencesExt

CONSTANTS Sizes,          \* what encoders produce
          Percentages,    \* config::stream.fec_percentage: 1..255
          Minimums,       \* config.minRequiredFecPackets
          Block, Header,  \* blocksize, and what of it are packet headers
          ShardsMax,      \* DATA_SHARDS_MAX: 255
          MaxBlocks,      \* MAX_FEC_BLOCKS: 4
          Group,          \* RTPA_DATA_SHARDS: 4
          Wrap,           \* of the audio sequence number: 2^16, a multiple of Group
          MaxFrame,       \* bound: frames
          MayThrow        \* may a call in the try block throw

VARIABLES kind,           \* the thread: "video" or "audio"
          frame,          \* the frame that was sent: [size, percentage, minimum, skip]
          blocks,         \* its blocks: [from, size, data, parity, percentage, seq]
          lowseq,         \* session->video.lowseq
          highest,        \* history: the highest sequence number that was sent
          frames,
          sequence,       \* session->audio.sequenceNumber
          ring,           \* shards_p: the packets by their place in the group
          base,           \* fec_packet.fecHeader.baseSequenceNumber
          parity          \* the last parity packets: [base, covers]

videoVars == <<frame, blocks, lowseq, highest, frames>>
audioVars == <<sequence, ring, base, parity>>
shardVars == <<kind, videoVars, audioVars>>

NoFrame == [size |-> 0, percentage |-> 0, minimum |-> 0, skip |-> FALSE]
Ceiling(a, b) == (a + b - 1) \div b

Init == /\ kind \in {"video", "audio"}
        /\ frame = NoFrame /\ blocks = <<>> /\ lowseq = 0 /\ highest = -1 /\ frames = 0
        /\ sequence = 0 /\ ring = [i \in 0..(Group - 1) |-> -1] /\ base = 0
        /\ parity = [base |-> 0, covers |-> <<>>]

-----------------------------------------------------------------------------
(* A frame *)

\* concat_and_insert(): room for a packet header in every shard.
Slice == Block - Header
Padded(size) == size + Ceiling(size, Slice) * Header

\* lastPayloadLen
LastLength(size) == IF size % Slice = 0 THEN Slice ELSE size % Slice

\* The data shards that leave room for their parity in 255.
MaxData(percentage) == (ShardsMax * 100) \div (100 + percentage)

BlocksNeeded(padded, percentage) == Ceiling(padded, MaxData(percentage) * Block)

\* Where block x begins, when there are n.
Begins(padded, n, x) == x * Ceiling(padded \div n, Block) * Block

Ends(padded, n, x) ==
  IF x = n - 1 THEN padded ELSE Begins(padded, n, x + 1)

\* fec::encode(): the percentage goes up when the minimum asks for more parity.
Encode(size, percentage, minimum) ==
  LET data == Ceiling(size, Block)
      wanted == Ceiling(data * percentage, 100)
      raise == wanted < minimum /\ percentage # 0
  IN [data |-> data,
      parity |-> IF raise THEN minimum ELSE wanted,
      percentage |-> IF raise THEN (100 * minimum) \div data ELSE percentage]

Shards(b) == b.data + b.parity

\* The blocks of a frame; too large a frame is sent without parity.
Cut(size, percentage, minimum) ==
  LET padded == Padded(size)
      needed == BlocksNeeded(padded, percentage)
      n == IF needed > MaxBlocks THEN MaxBlocks ELSE needed
      p == IF needed > MaxBlocks THEN 0 ELSE percentage
      piece == [x \in 0..(n - 1) |->
                  [from |-> Begins(padded, n, x),
                   size |-> Ends(padded, n, x) - Begins(padded, n, x)]]
      enc == [x \in 0..(n - 1) |-> Encode(piece[x].size, p, minimum)]
      seq[x \in 0..n] == IF x = 0 THEN lowseq
                         ELSE seq[x - 1] + enc[x - 1].data + enc[x - 1].parity
  IN [i \in 1..n |-> [from |-> piece[i - 1].from, size |-> piece[i - 1].size,
                      data |-> enc[i - 1].data, parity |-> enc[i - 1].parity,
                      percentage |-> enc[i - 1].percentage, seq |-> seq[i - 1]]]

Cutoff(size, percentage) == BlocksNeeded(Padded(size), percentage) > MaxBlocks

\* Faulty: the next frame begins after the data of this one.
NextAfterData(cut) == Last(cut).seq + Last(cut).data

NextSeq(cut) == Last(cut).seq + Shards(Last(cut))

SendFrame(size, percentage, minimum) ==
  LET cut == Cut(size, percentage, minimum)
  IN /\ kind = "video" /\ frames < MaxFrame /\ frames' = frames + 1
     /\ frame' = [size |-> size, percentage |-> percentage, minimum |-> minimum,
                  skip |-> Cutoff(size, percentage)]
     /\ blocks' = cut
     /\ lowseq' = NextSeq(cut)
     /\ highest' = Last(cut).seq + Shards(Last(cut)) - 1
     /\ UNCHANGED <<kind, audioVars>>

\* Something throws once a part of the shards is out: video.lowseq is only
\* written at the end of the try block.
SendFails(size, percentage, minimum) ==
  LET cut == Cut(size, percentage, minimum)
  IN /\ kind = "video" /\ MayThrow /\ frames < MaxFrame /\ frames' = frames + 1
     /\ frame' = NoFrame /\ blocks' = <<>>
     /\ \E i \in 1..Len(cut) : highest' = cut[i].seq
     /\ UNCHANGED <<kind, lowseq, audioVars>>

-----------------------------------------------------------------------------
(* An audio packet *)

Place(n) == n % Group

ParityDue(n) == Place(n + 1) = 0

\* The number goes up before the packet is sent; what may throw is in the try
\* block, which ends with the parity.
SendAudio(throws) ==
  LET n == sequence
  IN /\ kind = "audio" /\ (throws => MayThrow)
     /\ ring' = [ring EXCEPT ![Place(n)] = n]
     /\ sequence' = (n + 1) % Wrap
     /\ base' = IF ~throws /\ Place(n) = 0 THEN n ELSE base
     /\ parity' = IF ~throws /\ ParityDue(n)
                  THEN [base |-> base', covers |-> [i \in 1..Group |-> ring'[i - 1]]]
                  ELSE parity
     /\ UNCHANGED <<kind, videoVars>>

Next == \/ \E size \in Sizes, percentage \in Percentages, minimum \in Minimums :
             \/ SendFrame(size, percentage, minimum)
             \/ SendFails(size, percentage, minimum)
        \/ \E throws \in BOOLEAN : SendAudio(throws)

-----------------------------------------------------------------------------
(* Properties *)

TypeOK ==
  /\ kind \in {"video", "audio"} /\ frames \in 0..MaxFrame
  /\ lowseq \in Nat /\ highest \in Nat \union {-1}
  /\ sequence \in 0..(Wrap - 1) /\ base \in 0..(Wrap - 1)

\* The blocks lie within the frame, are not empty, follow one another and cover
\* it, and the last shard carries what lastPayloadLen says.
Whole ==
  blocks # <<>> =>
    /\ blocks[1].from = 0
    /\ \A i \in 1..Len(blocks) :
         /\ blocks[i].size > 0
         /\ i < Len(blocks) => /\ blocks[i + 1].from = blocks[i].from + blocks[i].size
                               /\ blocks[i].size % Block = 0
    /\ Last(blocks).from + Last(blocks).size = Padded(frame.size)
    /\ ((Last(blocks).size - 1) % Block) + 1 = Header + LastLength(frame.size)

\* "There are 2 bits for FEC block count", a code word has 255 shards, the
\* percentage has 8 bits and the shards are counted in 10: unless the frame is so
\* large that it is sent without parity.
BlocksFit ==
  /\ Len(blocks) <= MaxBlocks
  /\ ~frame.skip => \A i \in 1..Len(blocks) :
                      /\ Shards(blocks[i]) <= ShardsMax
                      /\ blocks[i].percentage < 256
                      /\ blocks[i].parity >= frame.minimum
                      /\ blocks[i].parity * 100 >= blocks[i].data * frame.percentage

\* No two shards have the same sequence number, and no number is left out: the
\* client would see losses.  It fails when something throws in a frame.
SequenceStep ==
  blocks' # <<>> /\ frames' # frames =>
    /\ blocks'[1].seq = highest + 1
    /\ \A i \in 2..Len(blocks') : blocks'[i].seq = blocks'[i - 1].seq + Shards(blocks'[i - 1])

\* The parity of audio packets is of the four that follow its base, also when the
\* number wraps.
ParityIsOfGroup ==
  parity.covers # <<>> =>
    \A i \in 1..Group : parity.covers[i] = (parity.base + i - 1) % Wrap
=============================================================================
