----------------------------- MODULE Experiment -----------------------------
(***************************************************************************)
(* How the experiment comes by its parameters: run.py, which starts one    *)
(* process after the other, and the part of main in cs621-dev01.cc that    *)
(* reads config.txt and the command line before it builds the network.     *)
(* What the network does with them is the module Detection; here a run     *)
(* that gets so far ends with some verdict.                                *)
(*                                                                         *)
(* Four numbers and a flag of main have no initial value.  Reading one     *)
(* that nothing has set gives any value; the model records that it was     *)
(* read.  What such a number leads to is left to chance where it matters.   *)
(***************************************************************************)
EXTENDS Integers, Sequences

CONSTANTS
  Files,      \* the contents config.txt may have: sequences of lines
  NoFile,     \* there is no config.txt
  Commands,   \* the sequences of commands that may be given
  Unset,      \* an indeterminate value
  NoOption,   \* an option that is not on the command line
  Unreadable, \* a value that is neither a number nor a rate, or an argument
              \* that CommandLine refuses; a line without "=" is its own value
  Rates,      \* the strings that are data rates
  Sizes       \* the packet sizes of which the stack holds an array

(* A file is a sequence of whatever its lines are. *)
ASSUME FileAssumption == \A f \in Files : f \in Seq({f[i] : i \in DOMAIN f})

(* outerDataRate starts out empty, which is no data rate. *)
ASSUME RateAssumption == "" \notin Rates

Numbers == {"packetSize", "maxPacketCount", "threshold"}
Local == Numbers \cup {"outerDataRate", "compressionLinkCapacity", "useCompression"}

VARIABLES
  file,      \* config.txt
  commands,  \* the commands that are still to be run
  pc,        \* of main: "none" while no process runs, or what it does next
  lines,     \* of main: the lines of the file it has not read
  local,     \* of main: its local variables
  ended      \* history: how the last process ended, and what it ran with

vars == <<file, commands, pc, lines, local, ended>>

Command(cap, comp) == [cap |-> cap, comp |-> comp]

Init ==
  /\ file \in Files \cup {NoFile}
  /\ commands \in Commands
  /\ pc = "none"
  /\ lines = <<>>
  /\ local = [v \in Local |-> Unset]
  /\ ended = [how |-> "none", command |-> Command(NoOption, NoOption), with |-> local]

Exit(how) ==
  /\ pc' = "none"
  /\ ended' = [how |-> how, command |-> Head(commands), with |-> local]
  /\ commands' = Tail(commands)
  /\ UNCHANGED <<file, lines, local>>
-----------------------------------------------------------------------------
(* run.py: every capacity, without and with compression. *)
RunPy == [k \in 1 .. 20 |-> Command((k + 1) \div 2, (k + 1) % 2)]

(* Mutant of Launch: the script gives up when a process has failed. *)
LaunchWhileWell ==
  /\ pc = "none" /\ commands # <<>>
  /\ ended.how \in {"none", "verdict"}
  /\ local' = [v \in Local |-> IF v = "outerDataRate" THEN "" ELSE Unset]
  /\ lines' = IF file = NoFile THEN <<>> ELSE file
  /\ pc' = "open"
  /\ UNCHANGED <<file, commands, ended>>

(* os.system starts a process and waits for it; how it ends is ignored.    *)
(* outerDataRate is a std::string and starts out empty.                    *)
Launch ==
  /\ pc = "none" /\ commands # <<>>
  /\ local' = [v \in Local |-> IF v = "outerDataRate" THEN "" ELSE Unset]
  /\ lines' = IF file = NoFile THEN <<>> ELSE file
  /\ pc' = "open"
  /\ UNCHANGED <<file, commands, ended>>

Open ==
  /\ pc = "open"
  /\ \/ file = NoFile /\ Exit("no config file")
     \/ file # NoFile /\ pc' = "read" /\ UNCHANGED <<file, commands, lines, local, ended>>

(* Mutant of Keep: any name that is known is taken from the file. *)
KeepAll(line) == line.name \in Local

(* The names main looks for; the others are passed over. *)
Configured == Numbers \cup {"outerDataRate"}
Keep(line) == line.name \in Configured

(* stoi throws on a value that does not start with a number, and on one    *)
(* beyond the range of an int.                                             *)
ReadLine ==
  /\ pc = "read" /\ lines # <<>>
  /\ LET line == Head(lines) IN
     IF line.name \in Numbers /\ line.value = Unreadable
     THEN Exit("terminated by an exception")
     ELSE /\ lines' = Tail(lines)
          /\ local' = IF Keep(line) THEN [local EXCEPT ![line.name] = line.value] ELSE local
          /\ UNCHANGED <<file, commands, pc, ended>>

EndOfFile ==
  /\ pc = "read" /\ lines = <<>>
  /\ pc' = "parse"
  /\ UNCHANGED <<file, commands, lines, local, ended>>

(* Mutant of Given: an option is only taken when nothing has been set. *)
GivenFirst(name, option) == IF local[name] = Unset THEN option ELSE local[name]

(* CommandLine leaves a variable alone whose option is not given. *)
Given(name, option) == IF option = NoOption THEN local[name] ELSE option

(* It ends the process at an option it does not know or cannot read. *)
Parse ==
  /\ pc = "parse"
  /\ IF Unreadable \in {Head(commands).cap, Head(commands).comp}
     THEN Exit("refused arguments")
     ELSE /\ local' = [local EXCEPT
               !["compressionLinkCapacity"] = Given("compressionLinkCapacity", Head(commands).cap),
               !["useCompression"] = Given("useCompression", Head(commands).comp)]
          /\ pc' = "check"
          /\ UNCHANGED <<file, commands, lines, ended>>

(* A capacity that nothing has set may or may not be 0. *)
Check ==
  /\ pc = "check"
  /\ \/ local["compressionLinkCapacity"] \in {0, Unset} /\ Exit("no capacity")
     \/ /\ local["compressionLinkCapacity"] # 0
        /\ pc' = "build"
        /\ UNCHANGED <<file, commands, lines, local, ended>>

(* A capacity below 0 makes a string that is no data rate, and one that    *)
(* nothing has set may or may not be below 0.                              *)
InnerRateInvalid ==
  LET cap == local["compressionLinkCapacity"] IN IF cap = Unset THEN TRUE ELSE cap < 0
InnerRateValid ==
  LET cap == local["compressionLinkCapacity"] IN IF cap = Unset THEN TRUE ELSE cap > 0

(* The rates are parsed when the links are built, and an array as long as  *)
(* a packet is put on the stack when the second client is.                 *)
BuildAndRun ==
  /\ pc = "build"
  /\ \/ local["outerDataRate"] \notin Rates /\ Exit("invalid data rate")
     \/ local["outerDataRate"] \in Rates /\ InnerRateInvalid /\ Exit("invalid data rate")
     \/ /\ local["outerDataRate"] \in Rates /\ InnerRateValid
        /\ \/ local["packetSize"] \notin Sizes /\ Exit("killed")
           \/ local["packetSize"] \in Sizes \cup {Unset} /\ Exit("verdict")

Main == Open \/ ReadLine \/ EndOfFile \/ Parse \/ Check \/ BuildAndRun

Next == Launch \/ Main

Spec == Init /\ [][Next]_vars

(* The processes run to their end, and so does the script. *)
FairSpec == Spec /\ WF_vars(Next)
-----------------------------------------------------------------------------
InFile(name) == file # NoFile /\ \E i \in 1 .. Len(file) : file[i].name = name
LastInFile(name) ==
  file[CHOOSE i \in 1 .. Len(file) :
         /\ file[i].name = name
         /\ \A j \in i + 1 .. Len(file) : file[j].name # name].value

Option(command, name) ==
  IF name = "compressionLinkCapacity" THEN command.cap ELSE command.comp

(* What a run that prints a verdict ran with is decided by its inputs and  *)
(* not by the runs before it: for the two options the command line, for    *)
(* the rest the last line of the file that names the variable; it is       *)
(* indeterminate exactly when these are silent.                            *)
InputsDecide ==
  ended.how = "verdict" =>
    \A v \in Local :
      ended.with[v] =
        IF v \in Configured
        THEN IF InFile(v) THEN LastInFile(v) ELSE Unset
        ELSE IF Option(ended.command, v) = NoOption THEN Unset
             ELSE Option(ended.command, v)

(* Liveness: run.py gets through all its commands, however many of the     *)
(* processes fail.                                                         *)
EveryCommandIsRun == <>(commands = <<>>)
=============================================================================
