-------------------------- MODULE ExperimentProofs --------------------------
(***************************************************************************)
(* Proofs about how the experiment comes by its parameters, for every      *)
(* config.txt and every sequence of commands: the loop over the lines of   *)
(* the file leaves in each variable the value of the last line read that   *)
(* names it, and no process inherits anything from the one before it.      *)
(***************************************************************************)
EXTENDS Experiment, SequenceTheorems, TLAPS

(* What a variable holds before main has read anything. *)
Default(v) == IF v = "outerDataRate" THEN "" ELSE Unset

(* Line i of file f is the last of the first k that names v. *)
LastOf(f, v, k, i) ==
  /\ i \in 1 .. k /\ f[i].name = v
  /\ \A j \in i + 1 .. k : f[j].name # v

(* x is what v holds when the first k lines of f have been read. *)
ReadUpTo(f, x, v, k) ==
  \/ (\A i \in 1 .. k : f[i].name # v) /\ x = Default(v)
  \/ \E i \in 1 .. k : LastOf(f, v, k, i) /\ x = f[i].value

(* The lines l are the end of the file f. *)
EndOf(f, l) ==
  /\ l \in Seq({f[i] : i \in DOMAIN f})
  /\ Len(l) <= Len(f)
  /\ \A i \in 1 .. Len(l) : l[i] = f[Len(f) - Len(l) + i]

(* While the file is read, and when it has been. *)
ReadInv ==
  /\ pc \in {"open", "read"} /\ file # NoFile =>
       /\ EndOf(file, lines)
       /\ \A v \in Configured : ReadUpTo(file, local[v], v, Len(file) - Len(lines))
  /\ pc \in {"parse", "check", "build"} =>
       \A v \in Configured : ReadUpTo(file, local[v], v, Len(file))
  /\ pc \in {"read", "parse", "check", "build"} => file # NoFile

(* What an option that was given, or not, leaves in its variable. *)
Parsed(option) == IF option = NoOption THEN Unset ELSE option

(* The options, before and after the command line is parsed. *)
OptionInv ==
  \A v \in Local \ Configured :
    /\ pc \in {"open", "read", "parse"} => local[v] = Unset
    /\ pc \in {"check", "build"} =>
         local[v] = Parsed(Option(Head(commands), v))

Phases == {"none", "open", "read", "parse", "check", "build"}

MainInv ==
  /\ file \in Files \cup {NoFile}
  /\ DOMAIN local = Local
  /\ pc \in Phases
  /\ ReadInv
  /\ OptionInv
  /\ InputsDecide
-----------------------------------------------------------------------------
LEMMA FileType == ASSUME MainInv, file # NoFile
                  PROVE  file \in Seq({file[i] : i \in DOMAIN file})
BY FileAssumption DEF MainInv

LEMMA Names ==
  /\ Local \ Configured = {"compressionLinkCapacity", "useCompression"}
  /\ Configured \subseteq Local
  /\ Numbers \subseteq Configured
BY DEF Local, Configured, Numbers

LEMMA Between ==
  ASSUME NEW m \in Nat, NEW i \in 1 .. m, NEW k \in 1 .. m
  PROVE  k = i \/ i \in k + 1 .. m \/ k \in i + 1 .. m
OBVIOUS

(* The last line that names v is the one the property chooses. *)
LEMMA LastChosen ==
  ASSUME MainInv, file # NoFile, NEW v \in Configured, ReadUpTo(file, local[v], v, Len(file)),
         local["outerDataRate"] # ""
  PROVE  local[v] = IF InFile(v) THEN LastInFile(v) ELSE Unset
<1>1. Len(file) \in Nat
  BY FileType, LenProperties
<1>2. CASE \A i \in 1 .. Len(file) : file[i].name # v
  <2>1. local[v] = Default(v)
    BY <1>2 DEF ReadUpTo, LastOf
  <2>2. v # "outerDataRate"
    BY <2>1 DEF Default
  <2>. QED  BY <1>2, <2>1, <2>2 DEF Default, InFile
<1>3. CASE \E i \in 1 .. Len(file) : file[i].name = v
  <2>1. PICK i \in 1 .. Len(file) : LastOf(file, v, Len(file), i) /\ local[v] = file[i].value
    BY <1>3 DEF ReadUpTo
  <2>. DEFINE P(n) == /\ file[n].name = v
                      /\ \A j \in n + 1 .. Len(file) : file[j].name # v
              k == CHOOSE n \in 1 .. Len(file) : P(n)
  <2>2. P(i)
    BY <2>1 DEF LastOf
  <2>3. k \in 1 .. Len(file) /\ P(k)
    <3>. HIDE DEF P
    <3>. QED  BY <2>1, <2>2
  <2>. HIDE DEF k
  <2>4. k = i
    <3>. DEFINE m == Len(file)
    <3>1. m \in Nat /\ k \in 1 .. m /\ i \in 1 .. m
      BY <1>1, <2>3
    <3>. HIDE DEF m
    <3>2. \/ k = i
          \/ i \in k + 1 .. m
          \/ k \in i + 1 .. m
      BY <3>1, Between
    <3>. QED  BY <3>2, <2>2, <2>3 DEF m
  <2>5. LastInFile(v) = file[k].value
    BY DEF k, LastInFile
  <2>6. InFile(v)
    BY <1>3 DEF InFile
  <2>. QED  BY <2>1, <2>4, <2>5, <2>6
<1>. QED  BY <1>2, <1>3
-----------------------------------------------------------------------------
(* What the property says of one process. *)
Decided(e) ==
  e.how = "verdict" =>
    \A v \in Local :
      e.with[v] =
        IF v \in Configured
        THEN IF InFile(v) THEN LastInFile(v) ELSE Unset
        ELSE IF Option(e.command, v) = NoOption THEN Unset ELSE Option(e.command, v)

LEMMA FileFrame ==
  ASSUME file' = file
  PROVE  \A v : (InFile(v)' <=> InFile(v)) /\ LastInFile(v)' = LastInFile(v)
BY DEF InFile, LastInFile

LEMMA DecidedFrame == InputsDecide /\ UNCHANGED <<file, ended>> => InputsDecide'
BY FileFrame DEF InputsDecide

LEMMA MainInit == Init => MainInv
<1>. SUFFICES ASSUME Init PROVE MainInv
  OBVIOUS
<1>1. ended.how = "none" /\ pc = "none" /\ DOMAIN local = Local /\ file \in Files \cup {NoFile}
  BY DEF Init
<1>2. InputsDecide
  BY <1>1 DEF InputsDecide
<1>3. ReadInv /\ OptionInv
  BY <1>1 DEF ReadInv, OptionInv
<1>. QED  BY <1>1, <1>2, <1>3 DEF MainInv, Phases

(* A process ends; if with a verdict, it ran with what its inputs say. *)
LEMMA ExitStep ==
  ASSUME MainInv, NEW how, Exit(how),
         Decided([how |-> how, command |-> Head(commands), with |-> local])
  PROVE  MainInv'
<1>1. /\ ended' = [how |-> how, command |-> Head(commands), with |-> local] /\ pc' = "none"
      /\ UNCHANGED <<file, lines, local>>
  BY DEF Exit
<1>2. InputsDecide'
  <2>1. ended'.how = "verdict" =>
          \A v \in Local :
            ended'.with[v] =
              IF v \in Configured
              THEN IF InFile(v) THEN LastInFile(v) ELSE Unset
              ELSE IF Option(ended'.command, v) = NoOption THEN Unset
                   ELSE Option(ended'.command, v)
    BY <1>1 DEF Decided
  <2>. QED  BY <1>1, <2>1, FileFrame DEF InputsDecide, Option
<1>3. ReadInv' /\ OptionInv'
  BY <1>1 DEF ReadInv, OptionInv
<1>. QED  BY <1>1, <1>2, <1>3 DEF MainInv, Phases

LEMMA LaunchStep == ASSUME MainInv, Launch PROVE MainInv'
<1>1. /\ local' = [v \in Local |-> IF v = "outerDataRate" THEN "" ELSE Unset]
      /\ lines' = IF file = NoFile THEN <<>> ELSE file
      /\ pc' = "open" /\ UNCHANGED <<file, commands, ended>>
  BY DEF Launch
<1>2. ASSUME file # NoFile
      PROVE  /\ EndOf(file', lines') /\ Len(file') - Len(lines') = 0
  <2>1. lines' = file
    BY <1>1, <1>2
  <2>2. file \in Seq({file[i] : i \in DOMAIN file}) /\ Len(file) \in Nat
    BY <1>2, FileType, LenProperties
  <2>3. EndOf(file, file) /\ Len(file) - Len(file) = 0
    BY <2>2 DEF EndOf
  <2>. QED  BY <2>1, <2>3, <1>1
<1>3. ASSUME NEW v \in Configured PROVE ReadUpTo(file', local'[v], v, 0)
  <2>1. local'[v] = Default(v)
    BY <1>1, Names DEF Default
  <2>2. \A i \in 1 .. 0 : file'[i].name # v
    OBVIOUS
  <2>. QED  BY <2>1, <2>2 DEF ReadUpTo
<1>4. ReadInv'
  BY <1>1, <1>2, <1>3 DEF ReadInv
<1>5. OptionInv'
  BY <1>1, Names DEF OptionInv, Configured
<1>6. InputsDecide'
  BY <1>1, DecidedFrame DEF MainInv
<1>. QED  BY <1>1, <1>4, <1>5, <1>6 DEF MainInv, Phases

(* A step inside a process that records nothing. *)
LEMMA WithinStep ==
  ASSUME MainInv, UNCHANGED <<file, ended>>, DOMAIN local' = Local, pc' \in Phases,
         ReadInv', OptionInv'
  PROVE  MainInv'
<1>1. InputsDecide'
  BY DecidedFrame DEF MainInv
<1>. QED  BY <1>1 DEF MainInv

LEMMA OpenStep == ASSUME MainInv, Open PROVE MainInv'
<1>1. CASE file = NoFile /\ Exit("no config file")
  BY <1>1, ExitStep DEF Decided
<1>2. CASE file # NoFile /\ pc' = "read" /\ UNCHANGED <<file, commands, lines, local, ended>>
  <2>1. pc = "open"
    BY DEF Open
  <2>2. ReadInv' /\ OptionInv'
    BY <1>2, <2>1 DEF MainInv, ReadInv, OptionInv
  <2>. QED  BY <1>2, <2>2, WithinStep DEF MainInv, Phases
<1>. QED  BY <1>1, <1>2 DEF Open

(* The next line of the file. *)
LEMMA RestHead ==
  ASSUME MainInv, file # NoFile, EndOf(file, lines), lines # <<>>, lines' = Tail(lines), file' = file,
         NEW k, k = Len(file) - Len(lines)
  PROVE  /\ k \in Nat /\ k + 1 \in 1 .. Len(file) /\ Len(file) \in Nat
         /\ Head(lines) = file[k + 1]
         /\ EndOf(file', lines') /\ Len(file') - Len(lines') = k + 1
<1>. DEFINE S == {file[i] : i \in DOMAIN file}
<1>1. /\ lines \in Seq(S) /\ Len(lines) <= Len(file)
      /\ \A i \in 1 .. Len(lines) : lines[i] = file[Len(file) - Len(lines) + i]
  BY DEF EndOf
<1>2. Len(file) \in Nat
  BY FileType, LenProperties
<1>. HIDE DEF S
<1>3. /\ Len(lines) \in Nat \ {0} /\ Head(lines) = lines[1]
      /\ Tail(lines) \in Seq(S) /\ Len(Tail(lines)) = Len(lines) - 1
      /\ \A i \in 1 .. Len(lines) - 1 : Tail(lines)[i] = lines[i + 1]
  BY <1>1
<1>4. k \in Nat /\ k + 1 \in 1 .. Len(file) /\ Head(lines) = file[k + 1]
  BY <1>1, <1>2, <1>3
<1>5. Len(lines') <= Len(file') /\ Len(file') - Len(lines') = k + 1
  BY <1>1, <1>2, <1>3
<1>6. ASSUME NEW i \in 1 .. Len(lines')
      PROVE  lines'[i] = file[Len(file) - Len(lines') + i]
  <2>1. /\ i \in 1 .. Len(lines) - 1 /\ i + 1 \in 1 .. Len(lines)
        /\ Len(file) - Len(lines) + (i + 1) = k + 1 + i
    BY <1>2, <1>3, <1>6
  <2>2. lines'[i] = lines[i + 1]
    BY <1>3, <2>1
  <2>3. lines[i + 1] = file[Len(file) - Len(lines) + (i + 1)]
    BY <1>1, <2>1
  <2>. QED  BY <1>5, <2>1, <2>2, <2>3
<1>7. lines' \in Seq(S)
  BY <1>3
<1>8. EndOf(file, lines')
  BY <1>5, <1>6, <1>7 DEF EndOf, S
<1>. QED  BY <1>2, <1>4, <1>5, <1>8

LEMMA ReadLineStep == ASSUME MainInv, ReadLine PROVE MainInv'
<1>. DEFINE line == Head(lines)
            k == Len(file) - Len(lines)
<1>0. pc = "read" /\ lines # <<>>
  BY DEF ReadLine
<1>1. CASE Exit("terminated by an exception")
  BY <1>1, ExitStep DEF Decided
<1>2. CASE /\ lines' = Tail(lines)
           /\ local' = IF Keep(line) THEN [local EXCEPT ![line.name] = line.value] ELSE local
           /\ UNCHANGED <<file, commands, pc, ended>>
  <2>1. /\ file # NoFile /\ EndOf(file, lines) /\ DOMAIN local = Local
        /\ \A v \in Configured : ReadUpTo(file, local[v], v, k)
    BY <1>0 DEF MainInv, ReadInv
  <2>2. /\ k \in Nat /\ k + 1 \in 1 .. Len(file) /\ Len(file) \in Nat
        /\ line = file[k + 1]
        /\ EndOf(file', lines') /\ Len(file') - Len(lines') = k + 1
    BY <1>0, <1>2, <2>1, RestHead
  <2>. HIDE DEF line, k
  <2>3. ASSUME NEW v \in Configured PROVE ReadUpTo(file', local'[v], v, k + 1)
    <3>1. CASE line.name = v
      <4>1. local'[v] = line.value
        BY <1>2, <2>1, <3>1, Names DEF Keep
      <4>2. k + 1 \in 1 .. k + 1 /\ \A j \in k + 2 .. k + 1 : FALSE
        BY <2>2
      <4>3. LastOf(file, v, k + 1, k + 1)
        BY <2>2, <3>1, <4>2 DEF LastOf
      <4>. QED  BY <1>2, <2>2, <4>1, <4>2, <4>3 DEF ReadUpTo
    <3>2. CASE line.name # v
      <4>1. local'[v] = local[v]
        BY <1>2, <2>1, <3>2, Names
      <4>2. ReadUpTo(file, local[v], v, k)
        BY <2>1
      <4>3. \A i \in 1 .. k + 1 : i \in 1 .. k \/ i = k + 1
        BY <2>2
      <4>4. CASE (\A i \in 1 .. k : file[i].name # v) /\ local[v] = Default(v)
        BY <1>2, <2>2, <3>2, <4>1, <4>3, <4>4 DEF ReadUpTo, Default
      <4>5. ASSUME NEW i \in 1 .. k, LastOf(file, v, k, i), local[v] = file[i].value
            PROVE  ReadUpTo(file', local'[v], v, k + 1)
        <5>1. i \in 1 .. k + 1 /\ \A j \in i + 1 .. k + 1 : j \in i + 1 .. k \/ j = k + 1
          BY <2>2
        <5>2. LastOf(file', v, k + 1, i)
          BY <1>2, <2>2, <3>2, <4>5, <5>1 DEF LastOf
        <5>. QED  BY <1>2, <4>1, <4>5, <5>1, <5>2 DEF ReadUpTo
      <4>. QED  BY <4>2, <4>4, <4>5 DEF ReadUpTo
    <3>. QED  BY <3>1, <3>2
  <2>4. ReadInv'
    BY <1>0, <1>2, <2>1, <2>2, <2>3 DEF ReadInv
  <2>5. DOMAIN local' = Local
    BY <1>2, <2>1
  <2>6. OptionInv'
    <3>1. \A v \in Local \ Configured : local[v] = Unset
      BY <1>0 DEF MainInv, OptionInv
    <3>2. \A v \in Local \ Configured : local'[v] = local[v]
      BY <1>2, <2>1 DEF Keep
    <3>. QED  BY <1>0, <1>2, <3>1, <3>2 DEF OptionInv
  <2>. QED  BY <1>0, <1>2, <2>4, <2>5, <2>6, WithinStep DEF Phases
<1>. QED  BY <1>1, <1>2 DEF ReadLine

LEMMA EndOfFileStep == ASSUME MainInv, EndOfFile PROVE MainInv'
<1>1. /\ pc = "read" /\ lines = <<>> /\ pc' = "parse"
      /\ UNCHANGED <<file, commands, lines, local, ended>>
  BY DEF EndOfFile
<1>2. file # NoFile /\ \A v \in Configured : ReadUpTo(file, local[v], v, Len(file) - Len(lines))
  BY <1>1 DEF MainInv, ReadInv
<1>3. Len(file) - Len(lines) = Len(file)
  <2>1. Len(file) \in Nat
    BY <1>2, FileType, LenProperties
  <2>2. Len(lines) = 0
    BY <1>1, EmptySeq
  <2>. QED  BY <2>1, <2>2
<1>4. \A v \in Configured : ReadUpTo(file', local'[v], v, Len(file))
  BY <1>1, <1>2, <1>3
<1>5. ReadInv' /\ OptionInv'
  BY <1>1, <1>2, <1>4 DEF MainInv, ReadInv, OptionInv
<1>. QED  BY <1>1, <1>5, WithinStep DEF MainInv, Phases

LEMMA ParseStep == ASSUME MainInv, Parse PROVE MainInv'
<1>. DEFINE cap == Given("compressionLinkCapacity", Head(commands).cap)
            comp == Given("useCompression", Head(commands).comp)
<1>1. CASE Exit("refused arguments")
  BY <1>1, ExitStep DEF Decided
<1>2. CASE /\ local' = [local EXCEPT !["compressionLinkCapacity"] = cap, !["useCompression"] = comp]
           /\ pc' = "check" /\ UNCHANGED <<file, commands, lines, ended>>
  <2>1. /\ pc = "parse" /\ pc' = "check" /\ UNCHANGED <<file, commands, lines, ended>>
        /\ DOMAIN local = Local
        /\ \A v \in Configured : ReadUpTo(file, local[v], v, Len(file))
        /\ file # NoFile
    BY <1>2 DEF Parse, MainInv, ReadInv
  <2>2. local' = [local EXCEPT !["compressionLinkCapacity"] = cap, !["useCompression"] = comp]
    BY <1>2
  <2>3. \A v \in Local \ Configured :
          local[v] = Unset /\ local'[v] = Given(v, Option(Head(commands), v))
    <3>1. \A v \in Local \ Configured : local[v] = Unset
      BY <2>1 DEF MainInv, OptionInv
    <3>. QED  BY <2>1, <2>2, <3>1, Names DEF Option
  <2>4. \A v \in Configured : local'[v] = local[v]
    BY <2>1, <2>2, Names DEF Configured, Numbers
  <2>5. ReadInv'
    <3>1. \A v \in Configured : ReadUpTo(file', local'[v], v, Len(file))
      BY <2>1, <2>4
    <3>. QED  BY <2>1, <3>1 DEF ReadInv
  <2>6. OptionInv'
    BY <2>1, <2>3 DEF OptionInv, Given, Parsed
  <2>7. DOMAIN local' = Local
    BY <2>1, <2>2
  <2>. QED  BY <2>1, <2>5, <2>6, <2>7, WithinStep DEF Phases
<1>. QED  BY <1>1, <1>2 DEF Parse

LEMMA CheckStep == ASSUME MainInv, Check PROVE MainInv'
<1>1. CASE Exit("no capacity")
  BY <1>1, ExitStep DEF Decided
<1>2. CASE pc' = "build" /\ UNCHANGED <<file, commands, lines, local, ended>>
  <2>1. pc = "check"
    BY DEF Check
  <2>2. ReadInv' /\ OptionInv'
    BY <1>2, <2>1 DEF MainInv, ReadInv, OptionInv, Option
  <2>. QED  BY <1>2, <2>2, WithinStep DEF MainInv, Phases
<1>. QED  BY <1>1, <1>2 DEF Check

(* Only here a verdict is recorded. *)
LEMMA BuildStep == ASSUME MainInv, BuildAndRun PROVE MainInv'
<1>1. /\ pc = "build" /\ file # NoFile
      /\ \A v \in Configured : ReadUpTo(file, local[v], v, Len(file))
      /\ OptionInv
  BY DEF BuildAndRun, MainInv, ReadInv
<1>2. CASE Exit("invalid data rate")
  BY <1>2, ExitStep DEF Decided
<1>3. CASE Exit("killed")
  BY <1>3, ExitStep DEF Decided
<1>4. CASE local["outerDataRate"] \in Rates /\ Exit("verdict")
  <2>1. local["outerDataRate"] # ""
    BY <1>4, RateAssumption
  <2>2. \A v \in Configured : local[v] = IF InFile(v) THEN LastInFile(v) ELSE Unset
    BY <1>1, <2>1, LastChosen
  <2>3. \A v \in Local \ Configured :
          local[v] = Parsed(Option(Head(commands), v))
    BY <1>1 DEF OptionInv
  <2>4. Decided([how |-> "verdict", command |-> Head(commands), with |-> local])
    BY <2>2, <2>3 DEF Decided, Parsed
  <2>. QED  BY <1>4, <2>4, ExitStep
<1>. QED  BY <1>2, <1>4, <1>3 DEF BuildAndRun

LEMMA MainStep == MainInv /\ [Next]_vars => MainInv'
<1>. SUFFICES ASSUME MainInv, [Next]_vars PROVE MainInv'
  OBVIOUS
<1>1. CASE UNCHANGED vars
  <2>1. ReadInv' /\ OptionInv'
    BY <1>1 DEF vars, MainInv, ReadInv, OptionInv, Option
  <2>. QED  BY <1>1, <2>1, WithinStep DEF vars, MainInv
<1>. QED  BY <1>1, LaunchStep, OpenStep, ReadLineStep, EndOfFileStep, ParseStep,
            CheckStep, BuildStep DEF Next, Main

(* What a run with a verdict ran with is decided by config.txt and its own *)
(* command line: the last line that names a variable, the option if it is  *)
(* given, and nothing of the runs before it.                               *)
THEOREM InputsCorrect == Spec => []InputsDecide
<1>1. MainInv => InputsDecide
  BY DEF MainInv
<1>. QED  BY <1>1, MainInit, MainStep, PTL DEF Spec
=============================================================================
