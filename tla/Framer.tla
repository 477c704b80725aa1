------------------------------- MODULE Framer -------------------------------
(***************************************************************************)
(* The framers of a transport connection (transport/framer): f1 with its   *)
(* padding, ws with its three forms of a length and its masks, and the     *)
(* encryption under both.  Pure operators on an end of a connection; the   *)
(* modules of h1 keep the ends and the frames.                             *)
(*                                                                         *)
(* Bytes are known by their position in the stream: data is an interval    *)
(* that starts at position at; what was decrypted with another key, or cut *)
(* at the wrong length, is no data any more.                               *)
(***************************************************************************)
EXTENDS Integers, FiniteSets, FiniteSetsExt

CONSTANT Pads   \* bound: the paddings of a short chunk, out of the 2 to 255 of the code

ASSUME PadAssumption == Pads \subseteq 2..255

Data(at, len) == [at |-> at, len |-> len, ok |-> TRUE]
NoData == Data(0, 0)
Garbage(len) == [at |-> 0, len |-> len, ok |-> FALSE]

\* The first n bytes of data, and the rest.
TakeBytes(d, n) == [d EXCEPT !.len = Min({n, d.len})]
DropBytes(d, n) ==
    LET taken == TakeBytes(d, n).len IN [d EXCEPT !.at = @ + taken, !.len = @ - taken]

-----------------------------------------------------------------------------
(* encrypt.go *)

KeySize == 16   \* aes.BlockSize

\* The initialization vector goes before the encrypted bytes.
Encrypt(key, dat) == [key |-> key, dat |-> dat, size |-> KeySize + dat.len]

\* CFB notices nothing: a wrong key gives as many wrong bytes.
Decrypt(key, enc) == IF key = enc.key THEN enc.dat ELSE Garbage(enc.dat.len)

\* A key is the exclusive or of independent values: the set of those that do not
\* cancel out.
Xor(x, y) == (x \cup y) \ (x \cap y)

-----------------------------------------------------------------------------
(* An end of a connection: F1 or Ws *)

\* Framer: the key is that of the configuration, combined with the time stamp; a
\* ws client masks what it sends.
NewFramer(ws, psk, ts, role) ==
    [ws |-> ws, psk |-> Xor(psk, ts), mask |-> ws /\ role = "client", left |-> NoData]

\* F1.Write: a short chunk is padded with as many bytes as a random byte says, and with
\* two at least; a long one with two.
F1Frames(f, dat) ==
    {LET enc == Encrypt(f.psk, Data(dat.at, dat.len + pad))
     IN  [size |-> enc.size, pad |-> pad, enc |-> enc]
        : pad \in IF dat.len < 256 THEN Pads ELSE {2}}

\* Mutated form: the padding is taken for data.
F1ChunkPadded(f, frame) ==
    LET chunk == IF frame.size = frame.enc.size THEN Decrypt(f.psk, frame.enc)
                 ELSE Garbage(frame.size)
    IN  TakeBytes(chunk, chunk.len)

\* F1.Read of a frame: as many bytes as the header says, without the padding.
F1Chunk(f, frame) ==
    LET chunk == IF frame.size = frame.enc.size THEN Decrypt(f.psk, frame.enc)
                 ELSE Garbage(frame.size)
    IN  TakeBytes(chunk, chunk.len - frame.pad)

\* Mutated form: a length of 2^16 is taken for one that fits into two bytes.
WsHeaderShort(size) ==
    IF size <= 125 THEN [base |-> size, ext |-> 0]
    ELSE IF size > 65536 THEN [base |-> 127, ext |-> size]
    ELSE [base |-> 126, ext |-> size % 65536]

\* The length in the header of a ws frame: seven bits, two or eight more bytes.
WsHeader(size) ==
    IF size <= 125 THEN [base |-> size, ext |-> 0]
    ELSE IF size >= 65536 THEN [base |-> 127, ext |-> size]
    ELSE [base |-> 126, ext |-> size % 65536]

WsSize(header) == IF header.base < 126 THEN header.base ELSE header.ext

\* Ws.Write.
WsFrame(f, dat) ==
    LET enc == Encrypt(f.psk, dat)
    IN  [header |-> WsHeader(enc.size), masking |-> f.mask, enc |-> enc]

\* Ws.Read of a frame; a frame that is masked as one's own would be is an error.
WsRefused(f, frame) == frame.masking = f.mask

WsChunk(f, frame) ==
    IF WsSize(frame.header) = frame.enc.size THEN Decrypt(f.psk, frame.enc)
    ELSE Garbage(WsSize(frame.header))

Frames(f, dat) == IF f.ws THEN {WsFrame(f, dat)} ELSE F1Frames(f, dat)
Refused(f, frame) == f.ws /\ WsRefused(f, frame)
Chunk(f, frame) == IF f.ws THEN WsChunk(f, frame) ELSE F1Chunk(f, frame)

\* Mutated form: what does not fit into the caller's slice is dropped.
ReadChunkCut(f, dat, n) == [f EXCEPT !.left = NoData]

\* Read into a slice of n bytes returns TakeBytes(dat, n), where dat is what is left
\* of an earlier frame or the chunk of the next one; appendBuf keeps the rest.
ReadChunk(f, dat, n) == [f EXCEPT !.left = DropBytes(dat, n)]
=============================================================================
