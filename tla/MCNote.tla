-------------------------------- MODULE MCNote --------------------------------
(***************************************************************************)
(* The note of a meeting on both sides of the wire, for TLC: concurrent     *)
(* PUTs on the server, two tabs of one browser, and one tab that leaves,    *)
(* comes back and loses answers.  One run checks the three beside each      *)
(* other: a behaviour moves one of them, its part.                          *)
(***************************************************************************)
EXTENDS MCNoteService, NoteStore

CONSTANTS r1, r2, c1, c2, empty, a, b, long, t1, t2

VARIABLE part

noteVars == <<part, vars, editorVars>>

NoteInit ==
    /\ part \in {"server", "two tabs", "one tab"}
    /\ Init /\ EditorInit

\* The texts of the requests are interchangeable: they are named in the order of the requests.
Asks(r, contents) == dto'[r] # NoRequest => dto'[r].content \in contents

Server ==
    /\ part = "server" /\ Next /\ UNCHANGED <<part, editorVars>>
    /\ Asks(r1, {c1}) /\ Asks(r2, {c1, c2})

\* Texts a scenario types, and the sessions it opens.
Types(texts) == \A s \in Sessions : sess'[s] # NoSession => sess'[s].content \in texts
Opens(sessions) == \A s \in Sessions : sess'[s] # NoSession => s \in sessions

\* Two tabs, each in its first session, and a network that works.
TwoTabs ==
    /\ part = "two tabs" /\ EditorNext /\ UNCHANGED <<part, vars>>
    /\ faults' = 0
    /\ Types({empty, a, b}) /\ Opens({<<t1, 1>>, <<t2, 1>>})

\* One tab with a second session after the first, and a text that is too long.
OneTab ==
    /\ part = "one tab" /\ EditorNext /\ UNCHANGED <<part, vars>>
    /\ Types({empty, a, long}) /\ Opens({<<t1, 1>>, <<t1, 2>>})

NoteNext == Server \/ TwoTabs \/ OneTab

NoteSpec == NoteInit /\ [][NoteNext]_noteVars
===============================================================================
