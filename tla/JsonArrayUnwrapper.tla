------------------------- MODULE JsonArrayUnwrapper -------------------------
(***************************************************************************)
(* JsonArrayUnwrapper of buildindex.rs: a Read adapter that turns one JSON *)
(* array into a stream of its elements, rewriting the caller's buffer in   *)
(* place.  The caller chooses the size of every buffer, the inner reader   *)
(* how much of it to fill, and a read may be interrupted and repeated.     *)
(*                                                                         *)
(* A text is a sequence of symbols, one for each byte the code tells apart *)
(* and "x" for any other.  Strings with brackets in them are not tracked   *)
(* by the code and do not occur in the reference file: they are left out.  *)
(***************************************************************************)
EXTENDS Integers, Sequences, SequencesExt, Sums

CONSTANTS
    Elements,    \* the texts an array element may have: JSON values
    MaxElements, \* bound: how many elements an array has
    Outside,     \* the texts that may stand before and behind the array
    BufSizes     \* the buffer sizes a caller may use

Symbols == {"lbracket", "rbracket", "lbrace", "rbrace", "comma", "x"}

IsCloser(b) == b \in {"rbrace", "rbracket"}

\* How deep in brackets and braces each symbol of a text leaves us.
Weight(b) == IF b \in {"lbrace", "lbracket"} THEN 1 ELSE IF IsCloser(b) THEN -1 ELSE 0
Nesting(s) == RunningSum(Len(s), [k \in 1 .. Len(s) |-> Weight(s[k])])

\* What every JSON value is: it closes what it opens and nothing else, and has its
\* commas inside.
Balanced(e) ==
    /\ Nesting(e)[Len(e)] = 0
    /\ \A k \in 1 .. Len(e) : Nesting(e)[k] >= 0 /\ (e[k] = "comma" => Nesting(e)[k] > 0)

ASSUME InputAssumption ==
    /\ Elements \subseteq Seq(Symbols)
    /\ \A e \in Elements : Balanced(e)
    /\ Outside \subseteq Seq({"x"})
    /\ MaxElements \in Nat
    /\ BufSizes \subseteq Nat \ {0}

VARIABLES
    elems,    \* history: the elements of the array that is read
    text,     \* what the inner reader delivers, whole or cut off
    consumed, \* how much of it has been delivered
    started, depth, done, \* the fields of the adapter
    pc,       \* where read is
    buf,      \* the caller's buffer
    n, i, out_pos,
    out,      \* history: what the caller got
    eof       \* the caller got Ok(0) and stops

adapter == <<started, depth, done>>
vars == <<elems, text, consumed, adapter, pc, buf, n, i, out_pos, out, eof>>

----------------------------------------------------------------------------
\* The elements with sep between them.
Joined(es, sep) ==
    FlattenSeq([k \in 1 .. Len(es) |-> IF k = 1 THEN es[k] ELSE <<sep>> \o es[k]])

ArrayText(before, es, after) ==
    before \o <<"lbracket">> \o Joined(es, "comma") \o <<"rbracket">> \o after

\* The file may end anywhere: a cut array is no error of the adapter.
Init ==
    /\ elems \in SeqOf(Elements, MaxElements)
    /\ \E before, after \in Outside :
          LET whole == ArrayText(before, elems, after)
          IN  \E cut \in 0 .. Len(whole) : text = SubSeq(whole, 1, cut)
    /\ consumed = 0
    /\ started = FALSE /\ depth = 0 /\ done = FALSE
    /\ pc = "idle"
    /\ buf = <<>>
    /\ n = 0 /\ i = 0 /\ out_pos = 0
    /\ out = <<>>
    /\ eof = FALSE

\* read on a non-empty buffer, which holds anything.
Read ==
    /\ pc = "idle" /\ ~ eof /\ ~ done
    /\ \E size \in BufSizes : buf' = [k \in 1 .. size |-> "x"]
    /\ pc' = "fill"
    /\ UNCHANGED <<elems, text, consumed, adapter, n, i, out_pos, out, eof>>

\* A finished adapter returns Ok(0).
ReadWhenDone ==
    /\ pc = "idle" /\ ~ eof /\ done
    /\ eof' = TRUE
    /\ UNCHANGED <<elems, text, consumed, adapter, pc, buf, n, i, out_pos, out>>

\* inner.read puts some bytes, at least one, at the front of the buffer.
Fill ==
    /\ pc = "fill"
    /\ consumed < Len(text)
    /\ \E got \in 1 .. Len(buf) :
          /\ consumed + got <= Len(text)
          /\ n' = got
          /\ buf' = [k \in 1 .. Len(buf) |-> IF k <= got THEN text[consumed + k] ELSE buf[k]]
          /\ consumed' = consumed + got
    /\ i' = 0
    /\ out_pos' = 0
    /\ pc' = "filter"
    /\ UNCHANGED <<elems, text, adapter, out, eof>>

FillAgainAtEnd ==
    /\ pc = "fill"
    /\ consumed = Len(text)
    /\ UNCHANGED vars
\* The inner reader is at its end: so is the adapter, in or outside the array.
FillAtEnd ==
    /\ pc = "fill"
    /\ consumed = Len(text)
    /\ done' = TRUE
    /\ eof' = TRUE
    /\ pc' = "idle"
    /\ UNCHANGED <<elems, text, consumed, started, depth, buf, n, i, out_pos, out>>

\* inner.read(buf)? returns an interruption, and the caller reads again; any other
\* error ends the build.
Interrupted ==
    /\ pc = "fill"
    /\ pc' = "idle"
    /\ UNCHANGED <<elems, text, consumed, adapter, buf, n, i, out_pos, out, eof>>

EmitAhead(b) ==
    /\ buf' = [k \in 1 .. Len(buf) |-> IF k = out_pos + 2 THEN b ELSE buf[k]]
    /\ out_pos' = out_pos + 1
\* buf[out_pos] = b
Emit(b) ==
    /\ buf' = [buf EXCEPT ![out_pos + 1] = b]
    /\ out_pos' = out_pos + 1

\* Everything up to and including the opening bracket is dropped.
SkipByte ==
    /\ ~ started
    /\ started' = (buf[i + 1] = "lbracket")
    /\ UNCHANGED <<depth, done, buf, out_pos>>

OpenByte ==
    /\ started /\ buf[i + 1] \in {"lbrace", "lbracket"}
    /\ depth' = depth + 1
    /\ Emit(buf[i + 1])
    /\ UNCHANGED <<started, done>>

CloseByte ==
    /\ started /\ IsCloser(buf[i + 1]) /\ depth > 0
    /\ depth' = depth - 1
    /\ Emit(buf[i + 1])
    /\ UNCHANGED <<started, done>>

\* The outer array's own bracket: the rest of the buffer is not looked at.
EndOfArray ==
    /\ started /\ buf[i + 1] = "rbracket" /\ depth = 0
    /\ done' = TRUE
    /\ UNCHANGED <<started, depth, buf, out_pos>>

IsSeparatorAnywhere == buf[i + 1] = "comma"
\* b',' if self.depth == 0
IsSeparator == buf[i + 1] = "comma" /\ depth = 0

SeparatorByte ==
    /\ started /\ IsSeparator
    /\ Emit("space")
    /\ UNCHANGED <<started, depth, done>>

\* A closing brace at depth 0 falls to the last arm too.
OtherByte ==
    /\ started
    /\ buf[i + 1] \notin {"lbrace", "lbracket"}
    /\ ~ (IsCloser(buf[i + 1]) /\ depth > 0)
    /\ buf[i + 1] # "rbracket"
    /\ ~ IsSeparator
    /\ Emit(buf[i + 1])
    /\ UNCHANGED <<started, depth, done>>

\* One turn of the loop over the bytes read.
Filter ==
    /\ pc = "filter"
    /\ i < n /\ ~ done
    /\ \/ SkipByte \/ OpenByte \/ CloseByte \/ EndOfArray \/ SeparatorByte \/ OtherByte
    /\ i' = i + 1
    /\ UNCHANGED <<elems, text, consumed, pc, n, out, eof>>

ReturnsAlways == TRUE
\* out_pos > 0 || self.done
Returns == out_pos > 0 \/ done

\* The chunk is filtered.  Ok(out_pos), unless all of it was skipped: then the
\* loop reads on, because the caller would take Ok(0) for the end.
Return ==
    /\ pc = "filter"
    /\ i = n \/ done
    /\ IF Returns
       THEN /\ out' = out \o SubSeq(buf, 1, out_pos)
            /\ eof' = (out_pos = 0)
            /\ pc' = "idle"
       ELSE /\ pc' = "fill"
            /\ UNCHANGED <<out, eof>>
    /\ UNCHANGED <<elems, text, consumed, adapter, buf, n, i, out_pos>>

Next ==
    \/ Read \/ ReadWhenDone
    \/ Fill \/ FillAtEnd \/ Interrupted
    \/ Filter \/ Return

Spec == Init /\ [][Next]_vars

\* The caller reads until the end, and not every read is interrupted.
FairSpec ==
    /\ Spec
    /\ WF_vars(Read \/ ReadWhenDone \/ Filter \/ Return)
    /\ SF_vars(Fill \/ FillAtEnd)

----------------------------------------------------------------------------
(* Properties                                                              *)

TypeOK ==
    /\ consumed \in 0 .. Len(text)
    /\ started \in BOOLEAN /\ done \in BOOLEAN /\ eof \in BOOLEAN
    /\ depth \in Nat
    /\ pc \in {"idle", "fill", "filter"}
    /\ buf \in Seq(Symbols \cup {"space"})
    /\ n \in Nat /\ i \in 0 .. n /\ out_pos \in 0 .. i
    /\ pc = "filter" => n <= Len(buf)
    /\ out \in Seq(Symbols \cup {"space"})

\* What the array means: its elements, one space between two of them.
Meaning == Joined(elems, "space")

\* While a chunk is rewritten in place the bytes not yet looked at are still
\* those the inner reader delivered.
UnreadIntact ==
    pc = "filter" =>
        SubSeq(buf, i + 1, n) = SubSeq(text, consumed - n + i + 1, consumed)

\* Whatever the buffer sizes, the inner reads and the interruptions, what has
\* been handed out and what is ready in the buffer is a prefix of the elements:
\* separators are spaces, commas inside elements are commas, no byte is lost.
OutputIsElements ==
    IsPrefix(IF pc = "filter" THEN out \o SubSeq(buf, 1, out_pos) ELSE out, Meaning)

\* How much of the elements the text, which may be cut off, contains.
Held ==
    LET opened == {k \in 1 .. Len(text) : text[k] = "lbracket"}
    IN  IF opened = {} THEN 0
        ELSE Min({Len(Meaning), Len(text) - Min(opened)})

\* The caller sees the end only when there is no more: a complete array has been
\* handed out in full, and of a cut one all that the file holds.
EofIsTheEnd == eof => Len(out) = Held

\* serde_json's stream comes to its end.
EndsEventually == <>eof
=============================================================================
