------------------------------- MODULE TarPipe -------------------------------
(***************************************************************************)
(* copyFlatpakTree: two tar processes joined by an io.Pipe.  os/exec gives *)
(* each child an OS pipe and a goroutine that copies between it and the    *)
(* io.Pipe; a RunStream returns when its child has exited AND its          *)
(* goroutine has ended (no WaitDelay is set).  An io.Pipe has no buffer:   *)
(* a write waits for a reader, and only the end of the producer's          *)
(* RunStream closes it.                                                    *)
(***************************************************************************)
EXTENDS Naturals

CONSTANTS Chunks,    \* the size of the tree
          Capacity   \* of an OS pipe

ASSUME PipeAssumption == Chunks \in Nat \ {0} /\ Capacity \in Nat \ {0}

VARIABLES
    tarC, tarX,  \* the children: run, ok, bad
    sent, got,   \* chunks the producer has written, the extractor has unpacked
    outPipe, inPipe, \* chunks in the OS pipes
    outGo, inGo, \* the goroutines: read, write, done
    ioPipe       \* open, eof, error

pipeVars == <<tarC, tarX, sent, got, outPipe, inPipe, outGo, inGo, ioPipe>>

PipeInit ==
    /\ tarC = "run" /\ tarX = "run" /\ sent = 0 /\ got = 0
    /\ outPipe = 0 /\ inPipe = 0 /\ outGo = "read" /\ inGo = "read" /\ ioPipe = "open"

-----------------------------------------------------------------------------
Produce ==
    /\ tarC = "run" /\ sent < Chunks /\ outPipe < Capacity
    /\ sent' = sent + 1 /\ outPipe' = outPipe + 1
    /\ UNCHANGED <<tarC, tarX, got, inPipe, outGo, inGo, ioPipe>>

ProducerExits ==
    /\ tarC = "run" /\ sent = Chunks /\ tarC' = "ok"
    /\ UNCHANGED <<tarX, sent, got, outPipe, inPipe, outGo, inGo, ioPipe>>

ProducerFails ==
    /\ tarC = "run" /\ tarC' = "bad"
    /\ UNCHANGED <<tarX, sent, got, outPipe, inPipe, outGo, inGo, ioPipe>>

(* What the child has written is still read after it has exited.           *)
OutReads ==
    /\ outGo = "read"
    /\ \/ outPipe > 0 /\ outPipe' = outPipe - 1 /\ outGo' = "write"
       \/ outPipe = 0 /\ tarC # "run" /\ outGo' = "done" /\ UNCHANGED outPipe
    /\ UNCHANGED <<tarC, tarX, sent, got, inPipe, inGo, ioPipe>>

(* A write to the io.Pipe and a read from it are one step.                 *)
Meet ==
    /\ outGo = "write" /\ inGo = "read"
    /\ outGo' = "read" /\ inGo' = "write"
    /\ UNCHANGED <<tarC, tarX, sent, got, outPipe, inPipe, ioPipe>>

Produced == tarC # "run" /\ outGo = "done"

\* Fault: the pipe is closed on success only.
CloseOnSuccess ==
    /\ Produced /\ tarC = "ok" /\ ioPipe = "open" /\ ioPipe' = "eof"
    /\ UNCHANGED <<tarC, tarX, sent, got, outPipe, inPipe, outGo, inGo>>

(* pw.CloseWithError(produceErr).                                          *)
ClosePipe ==
    /\ Produced /\ ioPipe = "open"
    /\ ioPipe' = IF tarC = "ok" THEN "eof" ELSE "error"
    /\ UNCHANGED <<tarC, tarX, sent, got, outPipe, inPipe, outGo, inGo>>

InReads ==
    /\ inGo = "read" /\ ioPipe # "open" /\ inGo' = "done"
    /\ UNCHANGED <<tarC, tarX, sent, got, outPipe, inPipe, outGo, ioPipe>>

(* Writing to a child that is gone ends the goroutine.                     *)
InWrites ==
    /\ inGo = "write"
    /\ \/ tarX = "run" /\ inPipe < Capacity /\ inPipe' = inPipe + 1 /\ inGo' = "read"
       \/ tarX # "run" /\ inGo' = "done" /\ UNCHANGED inPipe
    /\ UNCHANGED <<tarC, tarX, sent, got, outPipe, outGo, ioPipe>>

Extract ==
    /\ tarX = "run" /\ inPipe > 0
    /\ inPipe' = inPipe - 1 /\ got' = got + 1
    /\ UNCHANGED <<tarC, tarX, sent, outPipe, outGo, inGo, ioPipe>>

(* At the end of the archive, or of a truncated stream, which the          *)
(* extractor may take for an error or not.                                 *)
ExtractorExits ==
    /\ tarX = "run" /\ inPipe = 0
    /\ \/ got = Chunks /\ tarX' = "ok"
       \/ inGo = "done" /\ got < Chunks /\ tarX' \in {"ok", "bad"}
    /\ UNCHANGED <<tarC, sent, got, outPipe, inPipe, outGo, inGo, ioPipe>>

(* No space left, killed, not installed.                                   *)
ExtractorFails ==
    /\ tarX = "run" /\ tarX' = "bad"
    /\ UNCHANGED <<tarC, sent, got, outPipe, inPipe, outGo, inGo, ioPipe>>

(* A cancellation kills both children.                                     *)
KillBoth ==
    /\ tarC' = IF tarC = "run" THEN "bad" ELSE tarC
    /\ tarX' = IF tarX = "run" THEN "bad" ELSE tarX
    /\ UNCHANGED <<sent, got, outPipe, inPipe, outGo, inGo, ioPipe>>

PipeFlows ==
    \/ Produce \/ ProducerExits \/ OutReads \/ Meet \/ ClosePipe
    \/ InReads \/ InWrites \/ Extract \/ ExtractorExits

PipeNext == PipeFlows \/ ProducerFails \/ ExtractorFails

-----------------------------------------------------------------------------
(* wg.Wait, errors.Join.                                                   *)
BothReturned == ioPipe # "open" /\ tarX # "run" /\ inGo = "done"

\* Fault: as in a shell's pipeline, the extractor's exit decides.
CopySucceededAsInShell == tarX = "ok"

CopySucceeded == tarC = "ok" /\ tarX = "ok" /\ ioPipe # "error"

PipeTypeOK ==
    /\ {tarC, tarX} \subseteq {"run", "ok", "bad"}
    /\ {sent, got} \subseteq 0..Chunks
    /\ {outPipe, inPipe} \subseteq 0..Capacity
    /\ {outGo, inGo} \subseteq {"read", "write", "done"}
    /\ ioPipe \in {"open", "eof", "error"}

(* A copy without an error has unpacked the whole tree: "a producer        *)
(* failure is never masked by extractor success".                          *)
WholeTree == BothReturned /\ CopySucceeded => got = Chunks

-----------------------------------------------------------------------------
(* The copy by itself.                                                     *)
PipeSpec == PipeInit /\ [][PipeNext \/ KillBoth]_pipeVars
=============================================================================
