------------------------------ MODULE MCCalls -------------------------------
(***************************************************************************)
(* What is a single call, from its arguments to what it leaves, on small   *)
(* instances for TLC: setupMemoryMap and the functions of the three files  *)
(* of util/.  They share no state: file says whose function is called, and *)
(* the others stay idle.                                                   *)
(***************************************************************************)
EXTENDS MCSetup, Strings, Numbers, TLC

VARIABLES
  file,
  tokens, args, fmt, offs, taken, text, room, now, held, printed, lpc \* logging.c

\* Chars of 1 bit, shorts of 2, ints of 3 and longs of 4; every length and every
\* kind of conversion once.
Width == 1 :> 1 @@ 2 :> 2 @@ 4 :> 3 @@ 8 :> 4

Spec1(l, k) == [len |-> l, kind |-> k]

Conversions ==
  {Spec1("none", "text"), Spec1("none", "percent"), Spec1("none", "c"), Spec1("none", "s"),
   Spec1("z", "x"), Spec1("hh", "d"), Spec1("h", "x"), Spec1("l", "u"), Spec1("none", "u")}

Moments == {0, 9, 599, 9999, 123456, 999999, 1000000}

Log == INSTANCE Logging WITH
  Tokens <- Conversions, MaxTokens <- 3, Args <- {1, 5, 15}, WidthOf <- Width, Room <- 2,
  Times <- Moments, Kilo <- 100, StampWidth <- 2,
  out <- text, pc <- lpc

logging == <<tokens, args, fmt, offs, taken, text, room, now, held, printed, lpc>>

SetupIdle == stEntries = <<>> /\ made = NotRun

StringsIdle == mem = <<>> /\ last = NoCall

NumbersIdle ==
  /\ fn = "none" /\ value = 0 /\ width = 1 /\ neg = 0
  /\ rest = 0 /\ iter = 0 /\ out = <<>> /\ pc = "idle"

LoggingIdle ==
  /\ tokens = <<>> /\ args = <<>> /\ fmt = <<>> /\ offs = 1 /\ taken = 0 /\ text = <<>>
  /\ room = 1 /\ now = -1 /\ held = FALSE /\ printed = <<>> /\ lpc = "idle"

CallsInit ==
  \/ file = "memory.c" /\ SetupInit /\ StringsIdle /\ NumbersIdle /\ LoggingIdle
  \/ file = "string.c" /\ StringsInit /\ SetupIdle /\ NumbersIdle /\ LoggingIdle
  \/ file = "numbers.c" /\ Init /\ SetupIdle /\ StringsIdle /\ LoggingIdle
  \/ file = "logging.c" /\ Log!Init /\ SetupIdle /\ StringsIdle /\ NumbersIdle

InSetup == file = "memory.c" /\ UNCHANGED <<file, stringVars, vars, logging>>
InStrings == file = "string.c" /\ UNCHANGED <<file, setupVars, vars, logging>>
InNumbers == file = "numbers.c" /\ UNCHANGED <<file, setupVars, stringVars, logging>>
InLogging == file = "logging.c" /\ UNCHANGED <<file, setupVars, stringVars, vars>>

StringsReady == last = NoCall /\ InStrings

CallsNext ==
  \/ InSetup /\ Setup
  \/ StringsReady /\ Copies
  \/ StringsReady /\ Sets
  \/ StringsReady /\ Compares
  \/ StringsReady /\ Searches
  \/ StringsReady /\ Spans
  \/ InStrings /\ Return
  \/ InNumbers /\ Ultoa
  \/ InNumbers /\ Ltoa
  \/ InNumbers /\ Ltox
  \/ InNumbers /\ Double
  \/ InNumbers /\ Strip
  \/ InNumbers /\ Pad
  \/ InLogging /\ Log!Format
  \/ InLogging /\ Log!Log

CallsSpec == CallsInit /\ [][CallsNext]_<<file, setupVars, stringVars, vars, logging>>
-----------------------------------------------------------------------------
\* The lines logging.c prints say what they mean.
MessageRight == file = "logging.c" => Log!MessageRight
=============================================================================
