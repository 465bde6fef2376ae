------------------------------ MODULE FileTree ------------------------------
(***************************************************************************)
(* What the shell's user expects of the file system: a tree of files and   *)
(* directories and a current directory.  Every command is one step, and    *)
(* the loss of power during a command that makes or writes something       *)
(* leaves the rest of the tree as it was.  A step is stated as a relation  *)
(* between the trees s and t before and after it.                          *)
(***************************************************************************)
EXTENDS Functions, TLC

CONSTANTS Root, InitialTree

VARIABLES
    tree,  \* of every node: its kind, the node behind each name, its content
    here   \* the current directory

vars == <<tree, here>>

Init == tree = InitialTree /\ here = Root

Kids(s, x) == Range(s[x].kids)
Parents(s, x) == {y \in DOMAIN s : x \in Kids(s, y)}
Has(s, x, n) == n \in DOMAIN s[x].kids

\* The nodes at and below x.
Below(s, x) ==
    LET below[y \in DOMAIN s] == {y} \union UNION {below[z] : z \in Kids(s, y)}
    IN  below[x]

Put(s, x, n, y) == [s EXCEPT ![x].kids = (n :> y) @@ @]
Cut(s, x, n) == [s EXCEPT ![x].kids = Restrict(@, DOMAIN @ \ {n})]
Empty(kind) == [kind |-> kind, kids |-> <<>>, content |-> <<>>]

\* A new empty file or directory behind a name that was not taken.
Creates(s, x, t) ==
    \E y \in DOMAIN t \ DOMAIN s, n \in DOMAIN t[x].kids :
        /\ ~Has(s, x, n)
        /\ t \in {Put((y :> Empty(kind)) @@ s, x, n, y) : kind \in {"file", "dir"}}

\* A name disappears with everything below it.
Removes(s, x, t) ==
    \E n \in DOMAIN s[x].kids \ DOMAIN t[x].kids :
        t = Restrict(Cut(s, x, n), DOMAIN s \ Below(s, s[x].kids[n]))

\* Only the content of one file changes.
Writes(s, t) ==
    \E x \in DOMAIN s \cap DOMAIN t :
        s[x].kind = "file" /\ s[x] # t[x] /\ t = [s EXCEPT ![x].content = t[x].content]

Renames(s, x, t) ==
    \E n \in DOMAIN s[x].kids \ DOMAIN t[x].kids, m \in DOMAIN t[x].kids \ DOMAIN s[x].kids :
        t = Put(Cut(s, x, n), x, m, s[x].kids[n])

\* A file moves to a directory below the current one, or to its parent.
Moves(s, x, t) ==
    \E n \in DOMAIN s[x].kids \ DOMAIN t[x].kids, y \in Kids(s, x) \union Parents(s, x) :
        /\ s[y].kind = "dir" /\ ~Has(s, y, n)
        /\ t = Put(Cut(s, x, n), y, n, s[x].kids[n])

Places(s, x) == {x, Root} \union Parents(s, x) \union {y \in Kids(s, x) : s[y].kind = "dir"}

Step(s, x, t, y) ==
    \/ s = t /\ y \in Places(s, x)
    \/ x = y /\ (Writes(s, t) \/ Creates(s, x, t) \/ Removes(s, x, t) \/ Renames(s, x, t))
    \/ Moves(s, x, t) /\ y \in {x} \union Parents(s, x)
    \* The power is lost.
    \/ y = Root /\ (Creates(s, x, t) \/ Writes(s, t))

\* Bound here so that TLC evaluates each tree once.
Next == \E s \in {tree}, t \in {tree'} : Step(s, here, t, here')

Spec == Init /\ [][Next]_vars
=============================================================================
