---------------------------------- MODULE Voc ----------------------------------
(***************************************************************************)
(* Mix_LoadVOC_RW of load_voc.c: a Creative Voice file is walked block by  *)
(* block; each block of sound makes the buffer longer and is then read     *)
(* into it.  A block of a VOC file says, besides its length, a rate (a     *)
(* code) and a number n: the channels of an extended block, the bytes of a *)
(* sample of 16-bit data, the samples of a silence; 0 is an encoding that  *)
(* is not known.  16-bit data has one channel, and markers are left out.   *)
(***************************************************************************)
EXTENDS Chunks

VOC_BAD_RATE == 0

VocReader == [pc |-> "vocBlock", part |-> "first", rest |-> 0, silent |-> FALSE,
              rate |-> VOC_BAD_RATE, size |-> 0, channels |-> 1, extended |-> FALSE,
              bytes |-> 0, audio |-> <<>>]

Silence(n) == Stretch(0, n)
Size(s) == s.to - s.from

-----------------------------------------------------------------------------
(* voc_get_block: one round of its loop.                                    *)

\* What of a block is read before its sound; all of one without sound, but for an
\* extended one, which has a length of its own.
Told(c) ==
    CASE c.kind = "data" -> 2
      [] c.kind = "data16" -> 12
      [] c.kind = "silence" -> 3
      [] c.kind = "extended" -> 4
      [] c.kind = "cont" -> 0
      [] OTHER -> c.len

\* A silence in the rate of the file; the rates of 16-bit and extended blocks are no
\* codes of a byte, and with them the division is one by a wrapped difference.
Period(c, rate) ==
    IF rate \in {VOC_BAD_RATE, c.x.rate} THEN c.x.n
    ELSE IF rate < 256 THEN (c.x.n * (256 - c.x.rate)) \div (256 - rate)
    ELSE 0

\* No frame in part at the end.
VocFound(r) ==
    [pc |-> "found", audio |-> r.audio, title |-> "",
     bytes |-> r.bytes - (r.bytes % (r.size * r.channels))]

\* A block that cannot be used fails the load, but in voc_read ends the sound.
Refusal == IF rd.part = "read" THEN VocFound(rd) ELSE Failed

VocParsed(c) ==
    LET wrongRate == c.x.rate = 0 \/ rd.rate \notin {VOC_BAD_RATE, c.x.rate}
        r == [rd EXCEPT !.silent = FALSE]
        sound == [r EXCEPT !.pc = "vocGot", !.rest = c.len - Told(c)]
    IN  CASE c.kind = "data" ->
                IF c.x.n = 0 \/ (~rd.extended /\ wrongRate) THEN Refusal
                ELSE [sound EXCEPT !.size = 1, !.extended = FALSE,
                                   !.rate = IF rd.extended THEN @ ELSE c.x.rate]
          [] c.kind = "data16" ->
                IF c.x.n = 0 \/ wrongRate THEN Refusal
                ELSE [sound EXCEPT !.size = c.x.n, !.rate = c.x.rate]
          [] c.kind = "cont" -> sound
          [] c.kind = "silence" ->
                IF c.x.rate = 0 THEN Refusal
                ELSE [sound EXCEPT !.rest = Period(c, rd.rate), !.silent = TRUE,
                                   !.rate = IF @ = VOC_BAD_RATE THEN c.x.rate ELSE @]
          [] c.kind = "extended" ->
                IF c.x.n = 0 \/ wrongRate THEN Refusal
                ELSE [r EXCEPT !.extended = TRUE, !.rate = c.x.rate, !.channels = c.x.n]
          [] OTHER -> r

\* What is left of a block is read on; the end of the list or of the file is no failure.
VocBlock ==
    /\ rd.pc = "vocBlock"
    /\ LET c == At(pos)
           told == pos + c.head + Told(c)
       IN  IF rd.rest > 0
             THEN rd' = [rd EXCEPT !.pc = "vocGot", !.silent = FALSE] /\ UNCHANGED pos
           ELSE IF c.kind \in {"nothing", "term"}
             THEN /\ rd' = [rd EXCEPT !.pc = "vocGot", !.silent = FALSE]
                  /\ pos' = IF c = Nothing THEN FileEnd ELSE pos + c.head
           ELSE /\ rd' = IF told > FileEnd THEN Refusal ELSE VocParsed(c)
                /\ pos' = Reached(told)
    /\ UNCHANGED file

-----------------------------------------------------------------------------
(* Mix_LoadVOC_RW and voc_read.                                             *)

\* voc_read, with a block: silence at once, sound as far as the file goes.
VocFilled(r) ==
    LET till == Reached(pos + r.rest)
        next == [r EXCEPT !.pc = "vocBlock", !.part = "next"]
        read == [next EXCEPT !.rest = @ - (till - pos), !.audio = Append(@, Stretch(pos, till))]
    IN  IF r.silent
          THEN /\ rd' = [next EXCEPT !.rest = 0, !.audio = Append(@, Silence(r.rest))]
               /\ UNCHANGED pos
          ELSE /\ rd' = IF (till - pos) \div r.size = 0 THEN VocFound(read) ELSE read
               /\ pos' = till

\* voc_get_block came back: to the start of Mix_LoadVOC_RW, to its loop, or to voc_read,
\* which asks once more when there was nothing to read.
VocGot ==
    /\ rd.pc = "vocGot"
    /\ LET longer == [rd EXCEPT !.bytes = @ + rd.rest]
       IN  CASE rd.part = "first" /\ (rd.rate = VOC_BAD_RATE \/ rd.size = 0 \/ rd.rest = 0) ->
                  rd' = Failed /\ UNCHANGED pos
             [] rd.part = "read" /\ rd.rest = 0 -> rd' = VocFound(rd) /\ UNCHANGED pos
             [] rd.part = "read" /\ rd.rest > 0 -> VocFilled(rd)
             [] rd.part = "next" /\ rd.rest = 0 ->
                  rd' = [rd EXCEPT !.pc = "vocBlock", !.part = "read"] /\ UNCHANGED pos
             [] OTHER -> VocFilled(longer)
    /\ UNCHANGED file

VocStep == VocBlock \/ VocGot
=============================================================================
