------------------------------- MODULE Session --------------------------------
(***************************************************************************)
(* A REPL session of src/src/bin/nvmetoy_repl.rs on the driver as DataPath *)
(* has it, timeouts and late commands included: what confinement is worth  *)
(* once BlockStore promises nothing any more.  The commands come down to   *)
(* confined_read, confined_write and identify: peek is a read of one block *)
(* and fill is a write; poke is a read and, if that was Ok, a write.       *)
(* FileBlocks::check is what FileBlocks shows it to be, and the block size *)
(* of the map is the driver's (Repl has the case where it is not).         *)
(***************************************************************************)
EXTENDS DataPath

CONSTANT File  \* blocks of the file the map describes

ASSUME FileAssumption == File \subseteq Blocks

VARIABLE poking  \* poke is between its read and its write

sessionVars == <<vars, poking>>

\* Mutant: only the first block is looked up.
CheckFirst(lba, count) == lba \in File

Check(lba, count) == lba .. lba + count - 1 \subseteq File

SessionInit == Init /\ poking = FALSE

ConfinedRead(lba, count) ==
  /\ ~poking
  /\ count # 0 /\ Check(lba, count)
  /\ Read(lba, count)
  /\ UNCHANGED poking

ConfinedWrite(lba, data) ==
  /\ ~poking
  /\ data # << >> /\ Check(lba, Len(data))
  /\ Write(lba, data, FALSE)
  /\ UNCHANGED poking

ReplIdentify == ~poking /\ Identify /\ UNCHANGED poking

PokeRead(lba) ==
  /\ ~poking
  /\ io_issued + 1 < MaxIo
  /\ Check(lba, 1)
  /\ Read(lba, 1)
  /\ poking' = TRUE

\* The patched block is written back.
PokeWrite(block) ==
  /\ poking
  /\ result = "ok" /\ Check(call.slba, 1)
  /\ Write(call.slba, <<block>>, FALSE)
  /\ poking' = FALSE

\* Mutant: poke goes on waiting after its read has failed.
PokeFailsOnTimeoutOnly ==
  /\ poking
  /\ pc = "idle" /\ result = "error" /\ TimedOut
  /\ poking' = FALSE
  /\ UNCHANGED vars

PokeFails ==
  /\ poking
  /\ pc = "idle" /\ result = "error"
  /\ poking' = FALSE
  /\ UNCHANGED vars

Repl ==
  \/ \E lba \in Slbas, count \in Counts : ConfinedRead(lba, count)
  \/ \E lba \in Slbas, count \in Counts :
       \E data \in [1 .. count -> Contents] : ConfinedWrite(lba, data)
  \/ ReplIdentify
  \/ \E lba \in Slbas : PokeRead(lba)

Poke == PokeFails \/ \E block \in Contents : PokeWrite(block)

SessionNext ==
  \/ Repl
  \/ Poke
  \/ (Driver \/ Controller) /\ UNCHANGED poking

SessionSpec == SessionInit /\ [][SessionNext]_sessionVars

\* The program keeps running; nothing is assumed of the controller, nor that
\* anything more is typed.
SessionFairSpec ==
  /\ SessionSpec
  /\ WF_sessionVars(Poke)
  /\ WF_sessionVars(Driver /\ UNCHANGED poking)

------------------------------------------------------------------------------
(* Properties *)

\* Blocks that are not part of the file keep their contents, whatever times out,
\* however late an abandoned command is carried out, and whatever it then finds
\* in the shared buffer.
ConfinedThroughout == \A b \in Blocks \ File : storage[b] = Blank

\* Why: commands name blocks of the file only, also those abandoned.
CommandsStayInFile ==
  /\ pc = "submit" /\ call.op \in {"read", "write"} =>
       call.slba .. call.slba + call.count - 1 \subseteq File
  /\ \A m \in moves :
       m.command.op \in {"read", "write"} => m.command.slba + m.k \in File

\* Every command comes back to the prompt, poke's second half included, however
\* the controller behaves.
BackAtPrompt == (pc # "idle" \/ poking) ~> (pc = "idle" /\ ~poking)
=============================================================================
