---------------------------- MODULE CommandLine ----------------------------
(***************************************************************************)
(* The shell reading a line: startShell and getInput of                    *)
(* kernel/user_shell/cmd.cpp, on top of the keyboard driver, whose         *)
(* interrupt handler runs between any two steps.                           *)
(***************************************************************************)
EXTENDS Keyboard, SequencesExt

CONSTANTS
    InputSize,           \* the size of userInput
    Newline, Backspace,  \* the two keys getInput looks for
    MaxTyped             \* bound: the most characters typed for one prompt

ASSUME InputAssumption ==
    /\ InputSize \in Nat /\ InputSize > 0
    /\ {Newline, Backspace} \subseteq Others /\ Newline # Backspace

VARIABLES
    shell,   \* "prompt", "reset", "poll" or "command"
    line,    \* buffer[0 .. index - 1]
    ok,      \* what getInput returned last
    taken    \* every character getInput took since the prompt

shellVars == <<shell, line, ok, taken>>
allVars == <<vars, shellVars>>

InitShell ==
    /\ Init
    /\ shell = "prompt"
    /\ line = <<>> /\ taken = <<>>
    /\ ok = TRUE

---------------------------------------------------------------------------
\* A key is pressed or released.
KeyEvent ==
    /\ \/ \E side \in {"left", "right"}, down \in BOOLEAN : ShiftKey(side, down)
       \/ CapsLockKey
       \/ \E k \in Letters \union Others :
             SendToQueue(k) /\ Len(taken) + Count < MaxTyped
    /\ UNCHANGED shellVars

\* getInput starts: the keyboard is reset before the prompt is printed.
StartInput ==
    /\ shell = "prompt"
    /\ Reset
    /\ shell' = "reset"
    /\ line' = <<>> /\ taken' = <<>>
    /\ UNCHANGED ok

Prompt ==
    /\ shell = "reset"
    /\ ResetEnds
    /\ shell' = "poll"
    /\ UNCHANGED <<line, ok, taken>>

\* The loop found a character waiting.
PollFetch ==
    /\ shell = "poll"
    /\ Fetch
    /\ UNCHANGED shellVars

\* What backspace leaves of the line: nothing happens at its start.
Erase(l) == IF l = <<>> THEN l ELSE Front(l)

(***************************************************************************)
(* One round of the loop: Enter ends the line, backspace takes a character *)
(* back, and a character that fills the buffer ends the input with an      *)
(* error, the zero byte written over that last character.                  *)
(***************************************************************************)
FullTooLate(l) == Len(l) + 1 > InputSize
Full(l) == Len(l) + 1 >= InputSize

Accept ==
    LET ch == fetched
    IN  /\ shell = "poll"
        /\ GetFromQueue
        /\ taken' = Append(taken, ch)
        /\ \/ /\ ch.key = Newline
              /\ ok' = TRUE /\ shell' = "command"
              /\ UNCHANGED line
           \/ /\ ch.key = Backspace
              /\ line' = Erase(line)
              /\ UNCHANGED <<shell, ok>>
           \/ /\ ch.key \notin {Newline, Backspace} /\ ~Full(line)
              /\ line' = Append(line, ch)
              /\ UNCHANGED <<shell, ok>>
           \/ /\ ch.key \notin {Newline, Backspace} /\ Full(line)
              /\ ok' = FALSE /\ shell' = "command"
              /\ UNCHANGED line

\* The command runs, or the complaint is printed, and the shell starts over.
Execute ==
    /\ shell = "command"
    /\ shell' = "prompt"
    /\ UNCHANGED <<vars, line, ok, taken>>

NextShell == KeyEvent \/ StartInput \/ Prompt \/ PollFetch \/ Accept \/ Execute

SpecShell == InitShell /\ [][NextShell]_allVars

\* getInput polls for ever; users type as they like, and commands may not end.
FairShell ==
    SpecShell
    /\ WF_allVars(StartInput) /\ WF_allVars(Prompt)
    /\ WF_allVars(PollFetch) /\ WF_allVars(Accept)

---------------------------------------------------------------------------
\* What one character does to the line a typist means.
Press(l, ch) ==
    IF ch.key = Newline THEN l
    ELSE IF ch.key = Backspace THEN Erase(l) ELSE Append(l, ch)

\* That line: every backspace takes back the character before it.
Edited(chars) ==
    LET after[n \in 0..Len(chars)] ==
          IF n = 0 THEN <<>> ELSE Press(after[n - 1], chars[n])
    IN  after[Len(chars)]

(***************************************************************************)
(* The line handed to the shell is the one the user sees: the characters   *)
(* taken since the prompt with the backspaces carried out, whatever was    *)
(* typed while the shell was between two steps; and it always leaves room  *)
(* for the zero byte getInput ends it with.                                *)
(***************************************************************************)
LineIsEdited ==
    shell \in {"poll", "command"} =>
        /\ IsPrefix(line, Edited(taken))
        /\ ok \/ shell = "poll" => line = Edited(taken)
        /\ Len(line) < InputSize

(***************************************************************************)
(* Characters reach the shell only out of the queue: what is taken and     *)
(* what is still unread grow by what is typed, and a new prompt is the     *)
(* only thing that drops a character.                                      *)
(***************************************************************************)
NothingDropped ==
    [][shell' \in {"poll", "command"} /\ shell = "poll"
          => IsPrefix(taken \o Unread, (taken \o Unread)')]_allVars

\* Enter at the prompt ends the line.
EnterReturns ==
    (shell = "poll" /\ \E i \in DOMAIN Unread : Unread[i].key = Newline)
        ~> (shell = "command")
============================================================================
