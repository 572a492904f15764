----------------------------- MODULE TableView -----------------------------
(***************************************************************************)
(* What UIKit's UITableView does with the cells of a list; external to the *)
(* app, known by how its view controllers use it.  Rows scroll in and out  *)
(* one at a time.  A row that leaves gives its cell to the queue of the    *)
(* cell's reuse identifier; a row that enters takes any cell of that queue *)
(* and, only if there is none, a new one.                                  *)
(***************************************************************************)
EXTENDS Naturals

CONSTANTS
    RowCount,     \* numberOfRowsInSection
    Identifier,   \* the reuse identifier cellForRowAt asks for, by row
    Cells,        \* the cells that may be made
    Screen        \* bound: full rows on the screen; one more shows in part

ASSUME TableAssumption ==
    /\ RowCount \in Nat
    /\ Screen \in Nat \ {0}
    /\ DOMAIN Identifier = 1..RowCount

VARIABLES
    first, last,  \* the rows on the screen are first..last
    row,          \* the row a cell is on, 0 if it is queued or not made
    made          \* identifier of a cell, "none" if it is not made

tableVars == <<first, last, row, made>>

TableTypeOK ==
    /\ first \in 1..(RowCount + 1)
    /\ last \in 0..RowCount
    /\ row \in [Cells -> 0..RowCount]
    /\ made \in [Cells -> {Identifier[r] : r \in 1..RowCount} \cup {"none"}]

TableInit ==
    /\ first = 1 /\ last = 0
    /\ row = [c \in Cells |-> 0]
    /\ made = [c \in Cells |-> "none"]

Queued(identifier) == {c \in Cells : row[c] = 0 /\ made[c] = identifier}

\* dequeueReusableCell may answer cell c.
CanDequeue(c, identifier) ==
    \/ c \in Queued(identifier)
    \/ Queued(identifier) = {} /\ c \in Queued("none")

\* Row r scrolls onto the screen, shown by cell c.
RowEnters(r, c) ==
    /\ last - first < Screen
    /\ \/ r = last + 1 /\ r <= RowCount /\ last' = r /\ UNCHANGED first
       \/ r = first - 1 /\ r >= 1 /\ first' = r /\ UNCHANGED last
    /\ CanDequeue(c, Identifier[r])
    /\ row' = [row EXCEPT ![c] = r]
    /\ made' = [made EXCEPT ![c] = Identifier[r]]

\* The row of cell c scrolls off the screen.
RowLeaves(c) ==
    /\ last - first >= Screen
    /\ \/ row[c] = first /\ first' = first + 1 /\ UNCHANGED last
       \/ row[c] = last /\ last' = last - 1 /\ UNCHANGED first
    /\ row' = [row EXCEPT ![c] = 0]
    /\ UNCHANGED made
=============================================================================
