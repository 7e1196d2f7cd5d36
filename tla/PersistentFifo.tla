--------------------------- MODULE PersistentFifo ---------------------------
(***************************************************************************)
(* PersistentFifo.cc: the fifo of urls on disk (URLsDisk, URLsDiskWait).   *)
(* It is a chain of files of UrlByFile lines, with a buffer before the     *)
(* last one, where every crawler appends, and a buffer after the first     *)
(* one, which the owner reads by pieces and unlinks at its end.            *)
(*                                                                         *)
(* put and get hold the lock from end to end.  put is one action; get is   *)
(* one action per call of read(), since what read() returns decides        *)
(* whether the buffer not yet written must be flushed.  The text of a url  *)
(* is its list of pieces: a piece stands for one or more bytes, and only   *)
(* the last piece of a line has its newline.  (RELOAD is off: the fifo     *)
(* starts from scratch.)                                                   *)
(***************************************************************************)
EXTENDS Integers, Sequences, FiniteSets, SequencesExt

CONSTANTS
    Items, NoItem,      \* urls
    LineLen,            \* pieces of the line of a url (its serialize)
    MaxLine,            \* maxUrlSize + 40 + maxCookieSize
    BufSize,            \* BUF_SIZE
    UrlByFile,          \* urlByFile
    Names               \* makeName: files are named by their number modulo
                        \* Names (six digits); bound: put waits rather than
                        \* have as many files at once

ASSUME PersistentAssumption ==
    /\ NoItem \notin Items
    /\ LineLen \in [Items -> 1..MaxLine]
    /\ MaxLine \in Nat /\ BufSize \in Nat
    \* 2 * (512 + 40 + 128) < 16384, by far
    /\ 2 * MaxLine < BufSize
    /\ UrlByFile \in Nat \ {0}
    /\ Names \in Nat \ {0, 1}

VARIABLES
    in, out,        \* urls put and taken, since the file being read began
    fin, fout,      \* names of the last file (written) and the first (read)
    files,          \* the files on disk: what has reached each
    rpos,           \* pieces of file fout given by read() so far
    outbuf,         \* written by put, not in the file yet
    buf, bufPos,    \* the read buffer (bufEnd is its length), and what is used
    reading,        \* get is inside readLine, with the lock
    got             \* the url the last get returned

vars == <<in, out, fin, fout, files, rpos, outbuf, buf, bufPos, reading, got>>

Line(u) == [k \in 1..LineLen[u] |-> <<u, k>>]
Newline(p) == p[2] = LineLen[p[1]]

Init ==
    /\ in = 0 /\ out = 0 /\ fin = 0 /\ fout = 0
    /\ files = [f \in {0} |-> <<>>]
    /\ rpos = 0
    /\ outbuf = <<>> /\ buf = <<>> /\ bufPos = 0
    /\ reading = FALSE
    /\ got = NoItem

bufEnd == Len(buf)

makeName(nb) == nb % Names

\* The names of the files on disk, the oldest first
Chain == [k \in 0..(fin + Names - fout) % Names |-> makeName(fout + k)]

\* Mutant: the file is written from its beginning
FlushOutRewrites(b) == [files EXCEPT ![fin] = b]

\* flushOut: what outbuf holds (b) reaches the last file
FlushOut(b) == [files EXCEPT ![fin] = @ \o b]

\* A new file: creat empties it, and open gives it the next number
Created(fs, f) == [g \in DOMAIN fs \cup {f} |-> IF g = f THEN <<>> ELSE fs[g]]

Unlinked(fs, f) == [g \in DOMAIN fs \ {f} |-> fs[g]]

-----------------------------------------------------------------------------
\* put: writeUrl, which flushes a buffer too full for the line, then in++ and
\* updateWrite, which flushes and begins a new file after UrlByFile urls
Put(u) ==
    LET fits == Len(outbuf) + LineLen[u] < BufSize
        fs   == IF fits THEN files ELSE FlushOut(outbuf)
        ob   == IF fits THEN outbuf \o Line(u) ELSE Line(u)
    IN /\ ~reading
       /\ in' = in + 1
       /\ IF in' % UrlByFile = 0
            THEN /\ makeName(fin + 1) # fout
                 /\ fin' = makeName(fin + 1)
                 /\ files' = Created([fs EXCEPT ![fin] = @ \o ob], fin')
                 /\ outbuf' = <<>>
            ELSE /\ files' = fs
                 /\ outbuf' = ob
                 /\ UNCHANGED fin
       /\ got' = NoItem
       /\ UNCHANGED <<out, fout, rpos, buf, bufPos, reading>>

\* tryGet when in # out, and get, whose callers know that there is a url:
\* readLine empties a buffer that is used up
Get ==
    /\ ~reading
    /\ in # out
    /\ reading' = TRUE
    /\ buf' = IF bufPos = bufEnd THEN <<>> ELSE buf
    /\ bufPos' = IF bufPos = bufEnd THEN 0 ELSE bufPos
    /\ UNCHANGED <<in, out, fin, fout, files, rpos, outbuf, got>>

\* strchr(buf + bufPos, '\n')
Newlines == {k \in bufPos + 1..bufEnd : Newline(buf[k])}

\* Before it reads, readLine moves a line that begins in the second half of
\* the buffer to its beginning
SecondHalf == bufPos * 2 > BufSize
Compacted == IF SecondHalf THEN SubSeq(buf, bufPos + 1, bufEnd) ELSE buf
CompactedPos == IF SecondHalf THEN 0 ELSE bufPos

Room == BufSize - 1 - Len(Compacted)
Unread == Len(files[fout]) - rpos

ReadMore ==
    /\ reading
    /\ Newlines = {}
    /\ bufPos' = CompactedPos
    /\ UNCHANGED <<in, out, fin, fout, reading, got>>

\* read gives n pieces of the file, possibly less than it was asked
Read(n) ==
    /\ ReadMore
    /\ n > 0 /\ n <= Room /\ n <= Unread
    /\ buf' = Compacted \o SubSeq(files[fout], rpos + 1, rpos + n)
    /\ rpos' = rpos + n
    /\ UNCHANGED <<files, outbuf>>

\* Mutant: the output is not flushed
ReadNothingNoFlush ==
    /\ ReadMore
    /\ Room = 0 \/ Unread = 0
    /\ buf' = Compacted
    /\ UNCHANGED <<files, outbuf, rpos>>

\* read gives 0: "We need to flush the output in order to read it"
ReadNothing ==
    /\ ReadMore
    /\ Room = 0 \/ Unread = 0
    /\ buf' = Compacted
    /\ files' = FlushOut(outbuf)
    /\ outbuf' = <<>>
    /\ UNCHANGED rpos

\* The text up to the newline, read back as a url
Parsed(text) ==
    IF \E u \in Items : text = Line(u) THEN CHOOSE u \in Items : text = Line(u)
    ELSE NoItem

\* updateRead: the n-th url was the last of its file
EndsFile(n) == n % UrlByFile = 0

\* updateRead: "in -= out"
InRebased == in - (out + 1)

\* readLine returns: out++, and updateRead goes to the next file after
\* UrlByFile urls
Take ==
    LET posn == CHOOSE k \in Newlines : \A j \in Newlines : k <= j IN
    /\ reading
    /\ Newlines # {}
    /\ got' = Parsed(SubSeq(buf, bufPos + 1, posn))
    /\ bufPos' = posn
    /\ IF EndsFile(out + 1)
         THEN /\ files' = Unlinked(files, fout)
              /\ fout' = makeName(fout + 1)
              /\ rpos' = 0
              /\ in' = InRebased
              /\ out' = 0
         ELSE /\ out' = out + 1
              /\ UNCHANGED <<files, fout, rpos, in>>
    /\ reading' = FALSE
    /\ UNCHANGED <<fin, outbuf, buf>>

ReadStep == (\E n \in 1..BufSize : Read(n)) \/ ReadNothing \/ Take

Next == (\E u \in Items : Put(u)) \/ Get \/ ReadStep

Spec == Init /\ [][Next]_vars

\* The thread that calls get runs, and read() returns
FairSpec == Spec /\ WF_vars(ReadStep)

-----------------------------------------------------------------------------
\* What is not read yet, through the buffer, the files and outbuf
Stream ==
    SubSeq(buf, bufPos + 1, bufEnd)
    \o SubSeq(files[fout], rpos + 1, Len(files[fout]))
    \o FlattenSeq([k \in DOMAIN Chain \ {0} |-> files[Chain[k]]])
    \o outbuf

\* The urls whose lines end in a text, in their order
UrlsOf(text) ==
    LET urls[i \in 0..Len(text)] ==
            IF i = 0 THEN <<>>
            ELSE IF Newline(text[i]) THEN Append(urls[i - 1], text[i][1])
            ELSE urls[i - 1]
    IN  urls[Len(text)]

\* The urls in the fifo, the oldest first
Content == UrlsOf(Stream)

\* The buffers and the files make one queue of urls: none is lost, torn or
\* reordered, wherever a line was cut by a read, a flush or the end of a file.
Abs == INSTANCE FifoQueue WITH queue <- Content

IsQueue == Abs!Spec

\* get returns: readLine always asks read() for at least one byte, and when the
\* file being read is the one being written, a flush gives it the rest of the
\* line.
GetReturns == reading ~> ~reading
=============================================================================
