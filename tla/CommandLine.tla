----------------------------- MODULE CommandLine -----------------------------
(***************************************************************************)
(* stdlib/runtime_ffi.c §16: the command line CreateProcess is given.  An  *)
(* argv becomes one string; a native program cuts it up again by the rules *)
(* of CommandLineToArgvW, a batch file is read by cmd.exe first.           *)
(*                                                                         *)
(* A character is one of those the rules tell apart:  "\\" a backslash,    *)
(* "q" a double quote, " " a blank, "n" a line end, "%", "&" an operator   *)
(* of cmd.exe, and letters.  "E" stands for %cd:~,% , which cmd.exe        *)
(* replaces by nothing.                                                    *)
(***************************************************************************)
EXTENDS Integers, Sequences, SequencesExt

CONSTANTS
    Argvs,          \* the argument lists of callers, sequences of sequences of characters
    Commands        \* the texts given to the shell entry point

VARIABLES
    kind,           \* what the name is found to be: "native", "batch" or "shell"
    argv,           \* the caller's arguments; the shell's command as the only one
    done,           \* arguments appended so far
    line,           \* the command line after the program's name
    pc              \* "new", "args", "ready" or "refused"

vars == <<kind, argv, done, line, pc>>

Rep(n) == [i \in 1..n |-> "\\"]
Has(arg, chars) == \E i \in DOMAIN arg : arg[i] \in chars
----------------------------------------------------------------------------
\* nurl__proc_quote_arg: the backslashes before a quote, and those before the
\* closing one, are doubled.
NeedsQuote(arg) == arg = <<>> \/ Has(arg, {" ", "n", "q"})
QuoteStep(acc, c) ==
    CASE c = "\\" -> [acc EXCEPT !.bs = @ + 1]
      [] c = "q"  -> [bs |-> 0, out |-> acc.out \o Rep(2 * acc.bs + 1) \o <<"q">>]
      [] OTHER    -> [bs |-> 0, out |-> acc.out \o Rep(acc.bs) \o <<c>>]
\* The last backslashes stay as they are.
PlainClose(acc) == acc.out \o Rep(acc.bs) \o <<"q">>
Close(acc) == acc.out \o Rep(2 * acc.bs) \o <<"q">>
quote_arg(arg) ==
    IF NeedsQuote(arg) THEN Close(FoldLeft(QuoteStep, [bs |-> 0, out |-> <<"q">>], arg)) ELSE arg

\* nurl__proc_batch_quote: a per cent sign is kept from opening a variable, the
\* last backslashes are doubled.
Percent(c) == IF c = "%" THEN <<"%", "E">> ELSE <<c>>
Trailing(acc, c) == IF c = "\\" THEN acc + 1 ELSE 0
batch_quote(arg) ==
    <<"q">> \o FlattenSeq([i \in DOMAIN arg |-> Percent(arg[i])])
            \o Rep(FoldLeft(Trailing, 0, arg)) \o <<"q">>
Refusable(arg) == Has(arg, {"q", "n"})

\* nurl__proc_batch_file, nurl__proc_prepare_launch: what the name is, and whether
\* the system directory and the memory for the found path are there.
Init ==
    /\ \/ kind \in {"native", "batch"} /\ argv \in Argvs
       \/ kind = "shell" /\ \E c \in Commands : argv = <<c>>
    /\ done = 0 /\ line = <<>> /\ pc = "new"
Prepare ==
    /\ pc = "new"
    /\ \/ pc' = "args"
       \/ kind # "native" /\ pc' = "refused"
    /\ line' = IF kind = "native" THEN <<>> ELSE <<"q">>
    /\ UNCHANGED <<kind, argv, done>>

\* nurl__proc_build_launch: one argument more, or a batch argument that cannot be kept.
Quoted(arg) ==
    CASE kind = "native" -> <<" ">> \o quote_arg(arg)
      [] kind = "batch"  -> <<" ">> \o batch_quote(arg)
      [] kind = "shell"  -> arg
AddArg ==
    /\ pc = "args" /\ done < Len(argv)
    /\ IF kind = "batch" /\ Refusable(argv[done + 1])
       THEN pc' = "refused" /\ UNCHANGED <<line, done>>
       ELSE /\ line' = line \o Quoted(argv[done + 1]) /\ done' = done + 1
            /\ UNCHANGED pc
    /\ UNCHANGED <<kind, argv>>
Finish ==
    /\ pc = "args" /\ done = Len(argv)
    /\ line' = IF kind = "native" THEN line ELSE Append(line, "q")
    /\ pc' = "ready"
    /\ UNCHANGED <<kind, argv, done>>

Next == Prepare \/ AddArg \/ Finish
Spec == Init /\ [][Next]_vars
----------------------------------------------------------------------------
\* CommandLineToArgvW, external: blanks outside quotes end an argument; backslashes
\* count only before a quote; two quotes inside quotes are one.
Start == [args |-> <<>>, cur |-> <<>>, open |-> FALSE, inq |-> FALSE, bs |-> 0, shut |-> FALSE]
Ended(p) == IF p.open THEN [Start EXCEPT !.args = Append(p.args, p.cur \o Rep(p.bs))]
                      ELSE p
Char(p, c) == [p EXCEPT !.cur = @ \o Rep(p.bs) \o <<c>>, !.bs = 0, !.open = TRUE, !.shut = FALSE]
AQuote(p) ==
    LET half == [p EXCEPT !.cur = @ \o Rep(p.bs \div 2), !.bs = 0, !.open = TRUE] IN
    IF p.bs % 2 = 1 THEN [half EXCEPT !.cur = Append(@, "q"), !.shut = FALSE]
    ELSE IF p.shut THEN [half EXCEPT !.cur = Append(@, "q"), !.inq = TRUE, !.shut = FALSE]
    ELSE [half EXCEPT !.inq = ~p.inq, !.shut = p.inq]
ParseStep(p, c) ==
    CASE c = "\\" -> [p EXCEPT !.bs = @ + 1, !.open = TRUE, !.shut = FALSE]
      [] c = "q"  -> AQuote(p)
      [] c = " " /\ ~p.inq -> Ended(p)
      [] OTHER    -> Char(p, c)
ToArgv(text) == Ended(FoldLeft(ParseStep, Start, text)).args

\* cmd.exe, external: /S /C takes the outer quotes away; %cd:~,% becomes nothing.
Stripped(text) == SubSeq(text, 2, Len(text) - 1)
Expanded(text) == SelectSeq(text, LAMBDA c : c # "E")
\* An operator outside quotes is cmd.exe's; a per cent sign opens a variable when
\* another one follows and nothing keeps it.
InQuotes(text, i) == Len(SelectSeq(SubSeq(text, 1, i), LAMBDA c : c = "q")) % 2 = 1
Bare(text) == \E i \in DOMAIN text : text[i] = "&" /\ ~InQuotes(text, i)
OpensVariable(text) ==
    \E i \in DOMAIN text :
        text[i] = "%" /\ \E j \in DOMAIN text : j > i /\ text[j] = "%" /\ (i = Len(text) \/ text[i + 1] # "E")

Received == CASE kind = "native" -> ToArgv(line)
              [] kind = "batch"  -> ToArgv(Expanded(Stripped(line)))
              [] kind = "shell"  -> <<Stripped(line)>>
----------------------------------------------------------------------------
TypeOK == kind \in {"native", "batch", "shell"} /\ done \in 0..Len(argv) /\ pc \in {"new", "args", "ready", "refused"}

\* What the program receives is what the caller gave, whatever backslashes, quotes
\* and blanks it holds; a batch file's arguments reach the program it hands them to,
\* and cmd.exe finds in them no operator and no variable.
ArgsArrive ==
    pc = "ready" =>
        /\ Received = argv
        /\ kind = "batch" => ~Bare(Stripped(line)) /\ ~OpensVariable(line)
=============================================================================
