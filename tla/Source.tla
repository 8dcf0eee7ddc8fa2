-------------------------------- MODULE Source --------------------------------
(***************************************************************************)
(* A file that is read through an SDL_RWops, and where its reader is.  The *)
(* file is a list of blocks (chunks of a RIFF or IFF file; tags and audio  *)
(* of an MP3 file), each with the bytes of its header, its contents and    *)
(* its padding; it may begin behind other data and may be cut short.       *)
(***************************************************************************)
EXTENDS Integers, Sequences

VARIABLES
    file,   \* the file: its form, the offset it begins at, the bytes before its
            \* first block, its blocks and the bytes missing at its end
    pos,    \* SDL_RWtell
    rd      \* the reader at work: where it is and what it has found

Block(kind, head, len, x) ==
    [kind |-> kind, head |-> head, len |-> len, pad |-> 0, x |-> x]

\* RIFF and IFF align chunks to two bytes.
Chunk(kind, len, x) == [Block(kind, 8, len, x) EXCEPT !.pad = len % 2]

Nothing == Block("nothing", 0, 0, "")

Total(b) == b.head + b.len + b.pad

\* Where block k begins.
Begin(k) ==
    LET begin[j \in 1 .. k] ==
          IF j = 1 THEN file.origin + file.lead ELSE begin[j - 1] + Total(file.blocks[j - 1])
    IN  begin[k]

FileEnd == Begin(Len(file.blocks) + 1) - file.cut

OneOf(ks) == IF ks = {} THEN Nothing ELSE file.blocks[CHOOSE k \in ks : TRUE]

\* The block whose header is at p.
At(p) == OneOf({k \in DOMAIN file.blocks : Begin(k) = p /\ p + file.blocks[k].head <= FileEnd})

\* The block that ends before p.
Before(p) == OneOf({k \in DOMAIN file.blocks : Begin(k + 1) = p})

\* SDL_RWseek and SDL_RWread do not go past the end of the file.
Reached(p) == IF p > FileEnd THEN FileEnd ELSE p

-----------------------------------------------------------------------------
(* How a reader ends.                                                       *)

NoReader == [pc |-> "none"]
Failed == [pc |-> "failed"]
\* A stretch of the file, or of silence.
Stretch(from, to) == [from |-> from, to |-> to]

Found(start, stop, title) ==
    [pc |-> "found", audio |-> <<Stretch(start, stop)>>, title |-> title]
=============================================================================
