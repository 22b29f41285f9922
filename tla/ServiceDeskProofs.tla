-------------------------- MODULE ServiceDeskProofs --------------------------
(***************************************************************************)
(* Theorems about ServiceDesk: its types, the stamps and numbers of the    *)
(* tickets, who reopens one, and which decision a change follows.          *)
(***************************************************************************)
EXTENDS ServiceDesk, TLAPS

-----------------------------------------------------------------------------
(* Types.                                                                  *)

\* What a request asks for fits what it is about to do.
Wants(k) ==
    /\ At(k, "updateTicket") => clerks[k].want \in TicketStatus \cup {"same"}
    /\ At(k, "updateChange") => clerks[k].want \in ChangeStatus
    /\ At(k, "decide") => /\ clerks[k].want \in {"APPROVED", "REJECTED"}
                          /\ \A c, e \in clerks[k].on : c = e

WantInv == \A k \in Clerk : Wants(k)

LEMMA OffType == Off \in ClerkState /\ Off.pc = "idle" /\ Off.on = {}
BY DEF Off, ClerkState, NoTicket, TicketRow

LEMMA DeskTypeInit == DeskInit => DeskTypeOK /\ WantInv
BY OffType DEF DeskInit, DeskTypeOK, WantInv, Wants, At, NoTicket, NoChange, TicketRow, ChangeRow,
    Decided

\* A step that begins or ends the request of one clerk.
LEMMA ClerkStep ==
    ASSUME DeskTypeOK, WantInv, NEW k \in Clerk, NEW c \in ClerkState,
           clerks' = [clerks EXCEPT ![k] = c],
           c.pc = "updateTicket" => c.want \in TicketStatus \cup {"same"},
           c.pc = "updateChange" => c.want \in ChangeStatus,
           c.pc = "decide" => c.want \in {"APPROVED", "REJECTED"} /\ \A d, e \in c.on : d = e
    PROVE  clerks' \in [Clerk -> ClerkState] /\ WantInv'
BY DEF DeskTypeOK, WantInv, Wants, At

LEMMA DoneStep ==
    ASSUME DeskTypeOK, WantInv, NEW k \in Clerk, Done(k)
    PROVE  clerks' \in [Clerk -> ClerkState] /\ WantInv'
BY OffType, ClerkStep DEF Done

LEMMA DeskTypeNext == DeskTypeOK /\ WantInv /\ [DeskNext]_deskVars => DeskTypeOK' /\ WantInv'
<1> SUFFICES ASSUME DeskTypeOK, WantInv, [DeskNext]_deskVars PROVE DeskTypeOK' /\ WantInv'
    OBVIOUS
<1>k. \A k \in Clerk : clerks[k] \in ClerkState
    BY DEF DeskTypeOK
<1>1. ASSUME NEW k \in Clerk, CreateTicket(k) PROVE DeskTypeOK' /\ WantInv'
    <2>1. sequence' \in [{"TCK", "CHG"} -> Nat] /\ sequence'["TCK"] \in Nat
        BY <1>1 DEF CreateTicket, TakeNumber, DeskTypeOK
    <2>2. [Off EXCEPT !.pc = "insertTicket", !.number = sequence'["TCK"]] \in ClerkState
        BY OffType, <2>1 DEF ClerkState
    <2>3. [Off EXCEPT !.pc = "insertTicket", !.number = sequence'["TCK"]].pc = "insertTicket"
        BY DEF Off
    <2>4. clerks' \in [Clerk -> ClerkState] /\ WantInv'
        BY <1>1, <2>2, <2>3, ClerkStep DEF CreateTicket, TakeNumber
    <2> QED
        BY <1>1, <2>1, <2>4 DEF CreateTicket, Ask, DeskTypeOK
<1>2. ASSUME NEW k \in Clerk, CreateChange(k) PROVE DeskTypeOK' /\ WantInv'
    <2>1. sequence' \in [{"TCK", "CHG"} -> Nat] /\ sequence'["CHG"] \in Nat
        BY <1>2 DEF CreateChange, TakeNumber, DeskTypeOK
    <2>2. [Off EXCEPT !.pc = "insertChange", !.number = sequence'["CHG"]] \in ClerkState
        BY OffType, <2>1 DEF ClerkState
    <2>3. [Off EXCEPT !.pc = "insertChange", !.number = sequence'["CHG"]].pc = "insertChange"
        BY DEF Off
    <2>4. clerks' \in [Clerk -> ClerkState] /\ WantInv'
        BY <1>2, <2>2, <2>3, ClerkStep DEF CreateChange, TakeNumber
    <2> QED
        BY <1>2, <2>1, <2>4 DEF CreateChange, Ask, DeskTypeOK
<1>3. ASSUME NEW k \in Clerk, NEW t \in Ticket, InsertTicket(k, t) PROVE DeskTypeOK' /\ WantInv'
    <2>1. [NoTicket EXCEPT !.status = "OPEN", !.number = clerks[k].number] \in TicketRow
        BY <1>k DEF NoTicket, TicketRow, ClerkState, TicketStatus
    <2> QED
        BY <1>3, <2>1, DoneStep DEF InsertTicket, DeskTypeOK
<1>4. ASSUME NEW k \in Clerk, NEW t \in Ticket, ReadTicket(k, t) PROVE DeskTypeOK' /\ WantInv'
    <2>1. PICK pc \in {"updateTicket", "comment", "deleteTicket"},
               want \in TicketStatus \cup {"same"} :
             clerks' = [clerks EXCEPT ![k] = [Off EXCEPT !.pc = pc, !.on = {t},
                                                 !.saw = tickets[t], !.want = want]]
        BY <1>4 DEF ReadTicket
    <2> DEFINE c == [Off EXCEPT !.pc = pc, !.on = {t}, !.saw = tickets[t], !.want = want]
    <2>2. c \in ClerkState /\ c.pc = pc /\ c.want = want
        BY OffType DEF ClerkState, DeskTypeOK
    <2> HIDE DEF c
    <2>3. clerks' \in [Clerk -> ClerkState] /\ WantInv'
        BY <2>1, <2>2, ClerkStep DEF c
    <2> QED
        BY <1>4, <2>3 DEF ReadTicket, Ask, DeskTypeOK
<1>5. ASSUME NEW k \in Clerk, NEW t \in Ticket, UpdateTicket(k, t) PROVE DeskTypeOK' /\ WantInv'
    <2>1. tickets' \in [Ticket -> TicketRow]
        <3>1. tickets[t] \in TicketRow /\ clerks[k].want \in TicketStatus \cup {"same"}
            BY <1>5 DEF UpdateTicket, DeskTypeOK, WantInv, Wants
        <3>2. ASSUME NEW s \in TicketStatus \cup {"none"}, NEW rs \in BOOLEAN, NEW cl \in BOOLEAN
              PROVE  [tickets[t] EXCEPT !.status = s, !.resolved = rs, !.closed = cl] \in TicketRow
            BY <3>1 DEF TicketRow
        <3> DEFINE set == Stamps(clerks[k].saw, clerks[k].want)
                   s == IF clerks[k].want = "same" THEN tickets[t].status ELSE clerks[k].want
        <3>3. /\ (tickets[t].resolved \/ set.resolved) \in BOOLEAN
              /\ (tickets[t].closed \/ set.closed) \in BOOLEAN
            BY Zenon
        <3>4. s \in TicketStatus \cup {"none"}
            BY <3>1 DEF TicketRow
        <3>5. [tickets[t] EXCEPT !.status = s, !.resolved = tickets[t].resolved \/ set.resolved,
                                 !.closed = tickets[t].closed \/ set.closed] \in TicketRow
            BY <3>2, <3>3, <3>4
        <3>6. \/ tickets' = tickets
              \/ tickets' = [tickets EXCEPT ![t] =
                    [tickets[t] EXCEPT !.status = s,
                                       !.resolved = tickets[t].resolved \/ set.resolved,
                                       !.closed = tickets[t].closed \/ set.closed]]
            BY <1>5 DEF UpdateTicket
        <3> HIDE DEF s, set
        <3> QED
            BY <3>5, <3>6 DEF DeskTypeOK
    <2> QED
        BY <1>5, <2>1, DoneStep DEF UpdateTicket, DeskTypeOK
<1>6. ASSUME NEW k \in Clerk, NEW t \in Ticket, Comment(k, t) PROVE DeskTypeOK' /\ WantInv'
    <2>1. [tickets[t] EXCEPT !.status = "IN_PROGRESS"] \in TicketRow
        BY DEF DeskTypeOK, TicketRow, TicketStatus
    <2> QED
        BY <1>6, <2>1, DoneStep DEF Comment, DeskTypeOK
<1>7. ASSUME NEW k \in Clerk, NEW t \in Ticket, DeleteTicket(k, t) PROVE DeskTypeOK' /\ WantInv'
    <2>1. NoTicket \in TicketRow
        BY DEF NoTicket, TicketRow
    <2> QED
        BY <1>7, <2>1, DoneStep DEF DeleteTicket, DeskTypeOK
<1>8. ASSUME NEW k \in Clerk, NEW c \in Change, InsertChange(k, c) PROVE DeskTypeOK' /\ WantInv'
    <2>1. \A want \in ChangeStatus :
             [NoChange EXCEPT !.status = want, !.number = clerks[k].number] \in ChangeRow
        BY <1>k DEF NoChange, ChangeRow, ClerkState, Decided
    <2> QED
        BY <1>8, <2>1, DoneStep DEF InsertChange, DeskTypeOK
<1>9. ASSUME NEW k \in Clerk, NEW c \in Change, ReadChange(k, c) PROVE DeskTypeOK' /\ WantInv'
    <2>1. PICK want \in ChangeStatus :
             clerks' = [clerks EXCEPT ![k] = [Off EXCEPT !.pc = "updateChange", !.on = {c},
                                                         !.want = want]]
        BY <1>9 DEF ReadChange
    <2> DEFINE e == [Off EXCEPT !.pc = "updateChange", !.on = {c}, !.want = want]
    <2>2. e \in ClerkState /\ e.pc = "updateChange" /\ e.want = want
        BY OffType DEF ClerkState
    <2> HIDE DEF e
    <2>3. clerks' \in [Clerk -> ClerkState] /\ WantInv'
        BY <2>1, <2>2, ClerkStep DEF e
    <2> QED
        BY <1>9, <2>3 DEF ReadChange, Ask, DeskTypeOK
<1>10. ASSUME NEW k \in Clerk, NEW c \in Change, UpdateChange(k, c) PROVE DeskTypeOK' /\ WantInv'
    <2>1. clerks[k].want \in ChangeStatus
        BY <1>10 DEF UpdateChange, WantInv, Wants
    <2>2. [changes[c] EXCEPT !.status = clerks[k].want, !.by = "request"] \in ChangeRow
        BY <2>1 DEF DeskTypeOK, ChangeRow
    <2> QED
        BY <1>10, <2>2, DoneStep DEF UpdateChange, DeskTypeOK
<1>11. ASSUME NEW k \in Clerk, NEW c \in Change, RecordDecision(k, c) PROVE DeskTypeOK' /\ WantInv'
    <2>1. PICK d \in {"APPROVED", "REJECTED"} :
             /\ changes' = [changes EXCEPT ![c] = [changes[c] EXCEPT !.decision = d,
                                                         !.crossed = Deciding(c) # {}]]
             /\ clerks' = [clerks EXCEPT ![k] = [Off EXCEPT !.pc = "decide", !.on = {c},
                                                         !.want = d]]
        BY <1>11 DEF RecordDecision
    <2> DEFINE e == [Off EXCEPT !.pc = "decide", !.on = {c}, !.want = d]
    <2>2. e \in ClerkState /\ e.pc = "decide" /\ e.want = d /\ e.on = {c}
        BY OffType DEF ClerkState, Decided
    <2>3. ASSUME NEW b \in BOOLEAN
          PROVE  [changes[c] EXCEPT !.decision = d, !.crossed = b] \in ChangeRow
        BY DEF DeskTypeOK, ChangeRow, Decided
    <2>4. (Deciding(c) # {}) \in BOOLEAN
        BY Zenon
    <2> HIDE DEF e
    <2>5. clerks' \in [Clerk -> ClerkState] /\ WantInv'
        BY <2>1, <2>2, ClerkStep DEF e
    <2>6. changes' \in [Change -> ChangeRow]
        BY <2>1, <2>3, <2>4 DEF DeskTypeOK
    <2> QED
        BY <1>11, <2>5, <2>6 DEF RecordDecision, Ask, DeskTypeOK
<1>12. ASSUME NEW k \in Clerk, NEW c \in Change, ApplyDecision(k, c) PROVE DeskTypeOK' /\ WantInv'
    <2>1. Verdict(clerks[k].want, changes[c].status) \in ChangeStatus
        BY DEF Verdict, ChangeStatus
    <2>2. [changes[c] EXCEPT !.status = Verdict(clerks[k].want, changes[c].status),
                             !.by = "decision"] \in ChangeRow
        BY <2>1 DEF DeskTypeOK, ChangeRow
    <2>3. changes' = [changes EXCEPT ![c] =
             [changes[c] EXCEPT !.status = Verdict(clerks[k].want, changes[c].status),
                                !.by = "decision"]]
        BY <1>12 DEF ApplyDecision
    <2> QED
        BY <1>12, <2>2, <2>3, DoneStep DEF ApplyDecision, DeskTypeOK
<1>13. ASSUME NEW k \in Clerk, Fail(k) PROVE DeskTypeOK' /\ WantInv'
    <2>1. \A c \in Change : [changes[c] EXCEPT !.crossed = TRUE] \in ChangeRow
        BY DEF DeskTypeOK, ChangeRow
    <2>2. changes' \in [Change -> ChangeRow]
        BY <1>13, <2>1 DEF Fail, DeskTypeOK
    <2> QED
        BY <1>13, <2>2, DoneStep DEF Fail, DeskTypeOK
<1>14. CASE UNCHANGED deskVars
    BY <1>14 DEF deskVars, DeskTypeOK, WantInv, Wants, At
<1> QED
    BY <1>1, <1>2, <1>3, <1>4, <1>5, <1>6, <1>7, <1>8, <1>9, <1>10, <1>11, <1>12, <1>13,
       <1>14 DEF DeskNext

\* The tickets, the changes, their numbers and the requests on them keep their
\* types, for any number of each.
THEOREM DeskTypeCorrect == DeskSpec => []DeskTypeOK
BY DeskTypeInit, DeskTypeNext, PTL DEF DeskSpec

-----------------------------------------------------------------------------
(* The clerks: what a step makes of them.                                  *)

\* The other clerks are as they were.
OthersStay(k) == \A j \in Clerk \ {k} : clerks'[j] = clerks[j]

LEMMA DoneClerk ==
    ASSUME DeskTypeOK, NEW k \in Clerk, Done(k)
    PROVE  clerks'[k] = Off /\ OthersStay(k)
BY DEF Done, DeskTypeOK, OthersStay

\* A clerk that takes a number.
LEMMA NumberClerk ==
    ASSUME DeskTypeOK, NEW k \in Clerk, NEW p \in {"TCK", "CHG"}, NEW pc, TakeNumber(k, p, pc)
    PROVE  /\ clerks'[k].pc = pc /\ clerks'[k].on = {}
           /\ clerks'[k].number = sequence[p] + 1
           /\ sequence'[p] = sequence[p] + 1
           /\ \A q \in {"TCK", "CHG"} \ {p} : sequence'[q] = sequence[q]
           /\ OthersStay(k)
BY DEF TakeNumber, DeskTypeOK, Off, OthersStay

\* A clerk that reads a ticket.
LEMMA ReadingClerk ==
    ASSUME DeskTypeOK, NEW k \in Clerk, NEW t \in Ticket, ReadTicket(k, t)
    PROVE  /\ clerks'[k].pc \in {"updateTicket", "comment", "deleteTicket"}
           /\ clerks'[k].on = {t} /\ clerks'[k].saw = tickets[t]
           /\ OthersStay(k)
BY DEF ReadTicket, DeskTypeOK, Off, OthersStay

\* A clerk that reads a change, and one that records a decision.
LEMMA ChangeClerk ==
    ASSUME DeskTypeOK, NEW k \in Clerk, NEW c \in Change
    PROVE  /\ ReadChange(k, c) =>
                 /\ clerks'[k].pc = "updateChange" /\ clerks'[k].on = {c}
                 /\ OthersStay(k)
           /\ RecordDecision(k, c) =>
                 /\ clerks'[k].pc = "decide" /\ clerks'[k].on = {c}
                 /\ changes'[c].decision = clerks'[k].want
                 /\ changes'[c].crossed = (Deciding(c) # {})
                 /\ changes'[c].status = changes[c].status /\ changes'[c].by = changes[c].by
                 /\ \A e \in Change \ {c} : changes'[e] = changes[e]
                 /\ OthersStay(k)
<1>1. ASSUME ReadChange(k, c)
      PROVE  clerks'[k].pc = "updateChange" /\ clerks'[k].on = {c} /\ OthersStay(k)
    BY <1>1 DEF ReadChange, DeskTypeOK, Off, OthersStay
<1>2. ASSUME RecordDecision(k, c)
      PROVE  /\ clerks'[k].pc = "decide" /\ clerks'[k].on = {c}
             /\ changes'[c].decision = clerks'[k].want
             /\ changes'[c].crossed = (Deciding(c) # {})
             /\ changes'[c].status = changes[c].status /\ changes'[c].by = changes[c].by
             /\ \A e \in Change \ {c} : changes'[e] = changes[e]
             /\ OthersStay(k)
    <2>1. PICK d \in {"APPROVED", "REJECTED"} :
             /\ changes' = [changes EXCEPT ![c] = [changes[c] EXCEPT !.decision = d,
                                                         !.crossed = Deciding(c) # {}]]
             /\ clerks' = [clerks EXCEPT ![k] = [Off EXCEPT !.pc = "decide", !.on = {c},
                                                         !.want = d]]
        BY <1>2 DEF RecordDecision
    <2>2. /\ clerks'[k].pc = "decide" /\ clerks'[k].on = {c} /\ clerks'[k].want = d
          /\ OthersStay(k)
        BY <2>1 DEF DeskTypeOK, Off, OthersStay
    <2>3. changes'[c] = [changes[c] EXCEPT !.decision = d, !.crossed = Deciding(c) # {}]
        BY <2>1 DEF DeskTypeOK
    <2>4. changes[c] \in ChangeRow /\ \A e \in Change \ {c} : changes'[e] = changes[e]
        BY <2>1 DEF DeskTypeOK
    <2>5. /\ changes'[c].decision = d /\ changes'[c].status = changes[c].status
          /\ changes'[c].by = changes[c].by /\ changes'[c].crossed = (Deciding(c) # {})
        BY <2>3, <2>4 DEF ChangeRow
    <2> QED
        BY <2>2, <2>4, <2>5
<1> QED
    BY <1>1, <1>2

-----------------------------------------------------------------------------
(* Tickets.                                                                *)

\* The row an update has read is stamped as its status says, and stamps never
\* go: whatever others write, the ticket has the stamps the update has seen.
SawInv ==
    \A k \in Clerk, t \in Ticket :
        At(k, "updateTicket") /\ t \in clerks[k].on =>
            LET saw == clerks[k].saw
            IN  /\ saw.status \in {"RESOLVED", "CLOSED"} => saw.resolved
                /\ saw.status = "CLOSED" => saw.closed
                /\ tickets[t].status # "none" =>
                      /\ saw.resolved => tickets[t].resolved
                      /\ saw.closed => tickets[t].closed

LEMMA StampInit == DeskInit => SawInv /\ TicketsStamped
BY DEF DeskInit, SawInv, TicketsStamped, At, Off, NoTicket

\* What one update leaves on its ticket.
LEMMA UpdateEffect ==
    ASSUME DeskTypeOK, SawInv, TicketsStamped, NEW k \in Clerk, NEW t \in Ticket,
           UpdateTicket(k, t), tickets[t].status # "none"
    PROVE  /\ tickets[t].resolved => tickets'[t].resolved
           /\ tickets[t].closed => tickets'[t].closed
           /\ tickets'[t].status \in {"RESOLVED", "CLOSED"} => tickets'[t].resolved
           /\ tickets'[t].status = "CLOSED" => tickets'[t].closed
           /\ tickets'[t].status \in {tickets[t].status, clerks[k].want}
           /\ \A u \in Ticket \ {t} : tickets'[u] = tickets[u]
<1> DEFINE want == clerks[k].want
           saw == clerks[k].saw
           set == Stamps(saw, want)
           s == IF want = "same" THEN tickets[t].status ELSE want
           row == [tickets[t] EXCEPT !.status = s,
                                     !.resolved = tickets[t].resolved \/ set.resolved,
                                     !.closed = tickets[t].closed \/ set.closed]
<1>1. tickets' = [tickets EXCEPT ![t] = row]
    BY DEF UpdateTicket
<1>2. tickets[t] \in TicketRow
    BY DEF DeskTypeOK
<1>3. /\ row.status = s /\ row.resolved = (tickets[t].resolved \/ set.resolved)
      /\ row.closed = (tickets[t].closed \/ set.closed)
    BY <1>2 DEF TicketRow
<1>4. /\ set.closed = (want = "CLOSED" /\ saw.status # "CLOSED")
      /\ set.resolved = (\/ want = "RESOLVED" /\ saw.status # "RESOLVED"
                         \/ (want = "CLOSED" /\ saw.status # "CLOSED") /\ ~saw.resolved)
    BY DEF Stamps
<1>5. /\ saw.status \in {"RESOLVED", "CLOSED"} => saw.resolved
      /\ saw.status = "CLOSED" => saw.closed
      /\ saw.resolved => tickets[t].resolved
      /\ saw.closed => tickets[t].closed
    BY DEF SawInv, UpdateTicket
<1>6. /\ tickets[t].status \in {"RESOLVED", "CLOSED"} => tickets[t].resolved
      /\ tickets[t].status = "CLOSED" => tickets[t].closed
    BY DEF TicketsStamped
<1>7. tickets'[t] = row /\ \A u \in Ticket \ {t} : tickets'[u] = tickets[u]
    BY <1>1 DEF DeskTypeOK
<1> HIDE DEF row, set, saw
<1>8. /\ row.status \in {"RESOLVED", "CLOSED"} => row.resolved
      /\ row.status = "CLOSED" => row.closed
    BY <1>3, <1>4, <1>5, <1>6
<1> QED
    BY <1>3, <1>7, <1>8

LEMMA StampNext ==
    DeskTypeOK /\ SawInv /\ TicketsStamped /\ [DeskNext]_deskVars => SawInv' /\ TicketsStamped'
<1> SUFFICES ASSUME DeskTypeOK, SawInv, TicketsStamped, [DeskNext]_deskVars
             PROVE  SawInv' /\ TicketsStamped'
    OBVIOUS
<1>t. \A t \in Ticket : tickets[t] \in TicketRow
    BY DEF DeskTypeOK
\* The clerks' view lasts while no ticket loses a stamp.
<1> DEFINE Lasts(t) == tickets'[t].status # "none" =>
                         /\ tickets[t].status # "none"
                         /\ tickets[t].resolved => tickets'[t].resolved
                         /\ tickets[t].closed => tickets'[t].closed
<1>1. ASSUME NEW k \in Clerk, OthersStay(k),
             ~(clerks'[k].pc = "updateTicket") \/ clerks'[k] = clerks[k],
             \A t \in Ticket : Lasts(t) \/ \A j \in Clerk : t \notin clerks'[j].on
      PROVE  SawInv'
    BY <1>1 DEF SawInv, At, OthersStay
<1>2. ASSUME NEW k \in Clerk, NEW t \in Ticket, InsertTicket(k, t)
      PROVE  SawInv' /\ TicketsStamped'
    <2>1. /\ tickets'[t].status = "OPEN"
          /\ \A u \in Ticket \ {t} : tickets'[u] = tickets[u]
        BY <1>2 DEF InsertTicket, DeskTypeOK, NoTicket
    <2>2. clerks'[k] = Off /\ OthersStay(k)
        BY <1>2, DoneClerk DEF InsertTicket
    <2>3. \A j \in Clerk : t \notin clerks'[j].on
        BY <1>2, <2>2, OffType DEF InsertTicket, OthersStay
    <2>4. SawInv'
        BY <1>1, <2>1, <2>2, <2>3, OffType
    <2> QED
        BY <2>1, <2>4 DEF TicketsStamped
<1>3. ASSUME NEW k \in Clerk, NEW t \in Ticket, ReadTicket(k, t)
      PROVE  SawInv' /\ TicketsStamped'
    <2>1. tickets' = tickets /\ TicketsStamped'
        BY <1>3 DEF ReadTicket, TicketsStamped
    <2>2. clerks'[k].on = {t} /\ clerks'[k].saw = tickets[t] /\ OthersStay(k)
        BY <1>3, ReadingClerk
    <2> QED
        BY <2>1, <2>2 DEF SawInv, TicketsStamped, At, OthersStay
<1>4. ASSUME NEW k \in Clerk, NEW t \in Ticket, UpdateTicket(k, t)
      PROVE  SawInv' /\ TicketsStamped'
    <2>1. clerks'[k] = Off /\ OthersStay(k)
        BY <1>4, DoneClerk DEF UpdateTicket
    <2>2. CASE tickets[t].status = "none"
        <3>1. tickets' = tickets
            BY <1>4, <2>2 DEF UpdateTicket
        <3> QED
            BY <1>1, <2>1, <3>1, OffType DEF TicketsStamped
    <2>3. CASE tickets[t].status # "none"
        <3>1. /\ Lasts(t)
              /\ tickets'[t].status \in {"RESOLVED", "CLOSED"} => tickets'[t].resolved
              /\ tickets'[t].status = "CLOSED" => tickets'[t].closed
              /\ \A u \in Ticket \ {t} : tickets'[u] = tickets[u]
            BY <1>4, <2>3, UpdateEffect
        <3> QED
            BY <1>1, <2>1, <3>1, OffType DEF TicketsStamped
    <2> QED
        BY <2>2, <2>3
<1>5. ASSUME NEW k \in Clerk, NEW t \in Ticket, Comment(k, t)
      PROVE  SawInv' /\ TicketsStamped'
    <2>1. clerks'[k] = Off /\ OthersStay(k)
        BY <1>5, DoneClerk DEF Comment
    <2>2. CASE tickets' = tickets
        BY <1>1, <2>1, <2>2, OffType DEF TicketsStamped
    <2>3. CASE tickets[t].status # "none" /\ tickets' = [tickets EXCEPT ![t].status = "IN_PROGRESS"]
        <3>1. /\ tickets'[t].status = "IN_PROGRESS"
              /\ tickets'[t].resolved = tickets[t].resolved
              /\ tickets'[t].closed = tickets[t].closed
              /\ \A u \in Ticket \ {t} : tickets'[u] = tickets[u]
            BY <1>t, <2>3 DEF DeskTypeOK, TicketRow
        <3> QED
            BY <1>1, <2>1, <2>3, <3>1, OffType DEF TicketsStamped
    <2> QED
        BY <1>5, <2>2, <2>3 DEF Comment
<1>6. ASSUME NEW k \in Clerk, NEW t \in Ticket, DeleteTicket(k, t)
      PROVE  SawInv' /\ TicketsStamped'
    <2>1. clerks'[k] = Off /\ OthersStay(k)
        BY <1>6, DoneClerk DEF DeleteTicket
    <2>2. /\ tickets'[t].status = "none"
          /\ \A u \in Ticket \ {t} : tickets'[u] = tickets[u]
        BY <1>6 DEF DeleteTicket, DeskTypeOK, NoTicket
    <2> QED
        BY <1>1, <2>1, <2>2, OffType DEF TicketsStamped
<1>7. ASSUME NEW k \in Clerk, UNCHANGED tickets, OthersStay(k), clerks'[k].pc # "updateTicket"
      PROVE  SawInv' /\ TicketsStamped'
    BY <1>1, <1>7 DEF TicketsStamped
<1>8. ASSUME NEW k \in Clerk, CreateTicket(k) \/ CreateChange(k) \/ Fail(k)
      PROVE  SawInv' /\ TicketsStamped'
    BY SMTT(40), <1>7, <1>8, NumberClerk, DoneClerk, OffType DEF CreateTicket, CreateChange, Fail
<1>9. ASSUME NEW k \in Clerk, NEW c \in Change,
             \/ InsertChange(k, c) \/ ReadChange(k, c) \/ UpdateChange(k, c)
             \/ RecordDecision(k, c) \/ ApplyDecision(k, c)
      PROVE  SawInv' /\ TicketsStamped'
    BY <1>7, <1>9, ChangeClerk, DoneClerk, OffType
    DEF InsertChange, ReadChange, UpdateChange, RecordDecision, ApplyDecision
<1>10. CASE UNCHANGED deskVars
    BY <1>10 DEF deskVars, SawInv, TicketsStamped, At
<1> QED
    BY <1>2, <1>3, <1>4, <1>5, <1>6, <1>8, <1>9, <1>10 DEF DeskNext

\* A number is taken once: it is a ticket's, or of one request about to insert
\* its ticket, and not above the sequence.
NumberInv ==
    /\ \A t \in Ticket : tickets[t].number <= sequence["TCK"]
    /\ \A k \in Clerk : At(k, "insertTicket") =>
          /\ 0 < clerks[k].number /\ clerks[k].number <= sequence["TCK"]
          /\ \A t \in Ticket : tickets[t].number # clerks[k].number
          /\ \A j \in Clerk : At(j, "insertTicket") /\ clerks[j].number = clerks[k].number
                              => j = k

LEMMA NumberInit == DeskInit => NumberInv /\ NumbersUnique
BY DEF DeskInit, NumberInv, NumbersUnique, At, Off, NoTicket

LEMMA NumberNext ==
    DeskTypeOK /\ NumberInv /\ NumbersUnique /\ [DeskNext]_deskVars => NumberInv' /\ NumbersUnique'
<1> SUFFICES ASSUME DeskTypeOK, NumberInv, NumbersUnique, [DeskNext]_deskVars
             PROVE  NumberInv' /\ NumbersUnique'
    OBVIOUS
<1>t. /\ \A t \in Ticket : tickets[t] \in TicketRow /\ tickets[t].number \in Nat
      /\ sequence["TCK"] \in Nat /\ \A k \in Clerk : clerks[k].number \in Nat
    BY DEF DeskTypeOK, TicketRow, ClerkState
\* A step that gives no number away.
<1>1. ASSUME NEW k \in Clerk, OthersStay(k), clerks'[k].pc # "insertTicket",
             sequence'["TCK"] = sequence["TCK"],
             \A t \in Ticket : tickets'[t].number \in {tickets[t].number, 0}
      PROVE  NumberInv' /\ NumbersUnique'
    BY <1>1, <1>t DEF NumberInv, NumbersUnique, At, OthersStay
<1>2. ASSUME NEW k \in Clerk, CreateTicket(k) PROVE NumberInv' /\ NumbersUnique'
    <2>1. /\ clerks'[k].pc = "insertTicket" /\ clerks'[k].number = sequence["TCK"] + 1
          /\ sequence'["TCK"] = sequence["TCK"] + 1 /\ OthersStay(k)
          /\ tickets' = tickets
        BY <1>2, NumberClerk DEF CreateTicket
    <2> QED
        BY <1>t, <2>1 DEF NumberInv, NumbersUnique, At, OthersStay
<1>3. ASSUME NEW k \in Clerk, CreateChange(k) PROVE NumberInv' /\ NumbersUnique'
    <2>1. /\ clerks'[k].pc = "insertChange" /\ sequence'["TCK"] = sequence["TCK"]
          /\ OthersStay(k) /\ tickets' = tickets
        BY <1>3, NumberClerk DEF CreateChange
    <2> QED
        BY <1>1, <2>1
<1>4. ASSUME NEW k \in Clerk, NEW t \in Ticket, InsertTicket(k, t)
      PROVE  NumberInv' /\ NumbersUnique'
    <2>1. /\ tickets'[t].number = clerks[k].number
          /\ \A u \in Ticket \ {t} : tickets'[u] = tickets[u]
        BY <1>4 DEF InsertTicket, DeskTypeOK, NoTicket
    <2>2. clerks'[k] = Off /\ OthersStay(k) /\ sequence' = sequence /\ At(k, "insertTicket")
        BY <1>4, DoneClerk DEF InsertTicket
    <2> QED
        BY <1>t, <2>1, <2>2, OffType DEF NumberInv, NumbersUnique, At, OthersStay
<1>5. ASSUME NEW k \in Clerk, NEW t \in Ticket, ReadTicket(k, t)
      PROVE  NumberInv' /\ NumbersUnique'
    BY <1>1, <1>5, ReadingClerk DEF ReadTicket
<1>6. ASSUME NEW k \in Clerk, NEW t \in Ticket, UpdateTicket(k, t)
      PROVE  NumberInv' /\ NumbersUnique'
    <2>1. \A u \in Ticket : tickets'[u].number = tickets[u].number
        <3>1. PICK s, rs, cl : \/ tickets' = tickets
                              \/ tickets' = [tickets EXCEPT ![t] =
                                    [tickets[t] EXCEPT !.status = s, !.resolved = rs,
                                                       !.closed = cl]]
            BY <1>6 DEF UpdateTicket
        <3>2. [tickets[t] EXCEPT !.status = s, !.resolved = rs, !.closed = cl].number
                 = tickets[t].number
            BY <1>t DEF TicketRow
        <3> QED
            BY <3>1, <3>2 DEF DeskTypeOK
    <2> QED
        BY <1>1, <1>6, <2>1, DoneClerk, OffType DEF UpdateTicket
<1>7. ASSUME NEW k \in Clerk, NEW t \in Ticket, Comment(k, t)
      PROVE  NumberInv' /\ NumbersUnique'
    <2>1. \A u \in Ticket : tickets'[u].number = tickets[u].number
        BY <1>7, <1>t DEF Comment, DeskTypeOK, TicketRow
    <2> QED
        BY <1>1, <1>7, <2>1, DoneClerk, OffType DEF Comment
<1>8. ASSUME NEW k \in Clerk, NEW t \in Ticket, DeleteTicket(k, t)
      PROVE  NumberInv' /\ NumbersUnique'
    <2>1. \A u \in Ticket : tickets'[u].number \in {tickets[u].number, 0}
        BY <1>8 DEF DeleteTicket, DeskTypeOK, NoTicket
    <2> QED
        BY <1>1, <1>8, <2>1, DoneClerk, OffType DEF DeleteTicket
<1>9. ASSUME NEW k \in Clerk, UNCHANGED <<tickets, sequence>>, OthersStay(k),
             clerks'[k].pc # "insertTicket"
      PROVE  NumberInv' /\ NumbersUnique'
    BY <1>1, <1>9
<1>10. ASSUME NEW k \in Clerk, Fail(k) PROVE NumberInv' /\ NumbersUnique'
    BY SMTT(40), <1>9, <1>10, DoneClerk, OffType DEF Fail
<1>11. ASSUME NEW k \in Clerk, NEW c \in Change,
             \/ InsertChange(k, c) \/ ReadChange(k, c) \/ UpdateChange(k, c)
             \/ RecordDecision(k, c) \/ ApplyDecision(k, c)
       PROVE  NumberInv' /\ NumbersUnique'
    BY <1>9, <1>11, ChangeClerk, DoneClerk, OffType
    DEF InsertChange, ReadChange, UpdateChange, RecordDecision, ApplyDecision
<1>12. CASE UNCHANGED deskVars
    BY <1>12 DEF deskVars, NumberInv, NumbersUnique, At
<1> QED
    BY <1>2, <1>3, <1>4, <1>5, <1>6, <1>7, <1>8, <1>10, <1>11, <1>12 DEF DeskNext

\* One step: a ticket is reopened by an update that asks for it, or by a comment
\* on a ticket that was open when the comment began.
LEMMA ReopenStep ==
    ASSUME DeskTypeOK, SawInv, TicketsStamped, DeskNext, NEW t \in Ticket,
           tickets[t].status \in {"RESOLVED", "CLOSED"}, tickets'[t].status = "IN_PROGRESS"
    PROVE  \E k \in Clerk :
              /\ t \in clerks[k].on /\ clerks'[k].pc = "idle"
              /\ \/ clerks[k].pc = "updateTicket" /\ clerks[k].want = "IN_PROGRESS"
                 \/ clerks[k].pc = "comment" /\ clerks[k].saw.status = "OPEN"
<1>1. PICK k \in Clerk, u \in Ticket :
         \/ InsertTicket(k, u) \/ UpdateTicket(k, u) \/ Comment(k, u) \/ DeleteTicket(k, u)
    BY DEF DeskNext, CreateTicket, CreateChange, Fail, ReadTicket, InsertChange, ReadChange,
        UpdateChange, RecordDecision, ApplyDecision
<1>2. clerks'[k].pc = "idle"
    BY <1>1, DoneClerk, OffType DEF InsertTicket, UpdateTicket, Comment, DeleteTicket
<1>3. CASE InsertTicket(k, u)
    BY <1>3 DEF InsertTicket, DeskTypeOK, NoTicket
<1>4. CASE DeleteTicket(k, u)
    BY <1>4 DEF DeleteTicket, DeskTypeOK, NoTicket
<1>5. CASE UpdateTicket(k, u)
    <2>1. u = t /\ clerks[k].want = "IN_PROGRESS"
        <3>1. CASE tickets[u].status = "none"
            BY <1>5, <3>1 DEF UpdateTicket
        <3>2. CASE tickets[u].status # "none"
            BY <1>5, <3>2, UpdateEffect
        <3> QED
            BY <3>1, <3>2
    <2> QED
        BY <1>2, <1>5, <2>1 DEF UpdateTicket, At
<1>6. CASE Comment(k, u)
    <2>1. u = t /\ clerks[k].saw.status = "OPEN"
        BY <1>6 DEF Comment, DeskTypeOK
    <2> QED
        BY <1>2, <1>6, <2>1 DEF Comment, At
<1> QED
    BY SMTT(40), <1>1, <1>3, <1>4, <1>5, <1>6

-----------------------------------------------------------------------------
(* Changes.                                                                *)

\* A change under decision has a row; and while its last decision was recorded
\* alone, that decision is the only one that waits.
DecisionInv ==
    \A c \in Change :
        /\ Deciding(c) # {} => changes[c].status # "none"
        /\ ~changes[c].crossed =>
              \A k \in Deciding(c) : /\ clerks[k].want = changes[c].decision
                                     /\ \A j \in Deciding(c) : j = k

LEMMA DecisionInit == DeskInit => DecisionInv /\ LastDecisionStands
<1> SUFFICES ASSUME DeskInit PROVE DecisionInv /\ LastDecisionStands
    OBVIOUS
<1>1. \A c \in Change : Deciding(c) = {} /\ changes[c].by = "request"
    BY DEF DeskInit, Deciding, At, Off, NoChange
<1> QED
    BY <1>1 DEF DecisionInv, LastDecisionStands

LEMMA DecisionNext ==
    DeskTypeOK /\ WantInv /\ DecisionInv /\ LastDecisionStands /\ [DeskNext]_deskVars
       => DecisionInv' /\ LastDecisionStands'
<1> SUFFICES ASSUME DeskTypeOK, WantInv, DecisionInv, LastDecisionStands, [DeskNext]_deskVars,
                    NEW c \in Change
             PROVE  /\ Deciding(c)' # {} => changes'[c].status # "none"
                    /\ ~changes'[c].crossed =>
                          \A k \in Deciding(c)' : /\ clerks'[k].want = changes'[c].decision
                                                  /\ \A j \in Deciding(c)' : j = k
                    /\ Deciding(c)' = {} /\ changes'[c].by = "decision" /\ ~changes'[c].crossed
                         => (changes'[c].status = "APPROVED") = (changes'[c].decision = "APPROVED")
    BY DEF DecisionInv, LastDecisionStands
<1> DEFINE Goal ==
        /\ Deciding(c)' # {} => changes'[c].status # "none"
        /\ ~changes'[c].crossed =>
              \A k \in Deciding(c)' : /\ clerks'[k].want = changes'[c].decision
                                      /\ \A j \in Deciding(c)' : j = k
        /\ Deciding(c)' = {} /\ changes'[c].by = "decision" /\ ~changes'[c].crossed
             => (changes'[c].status = "APPROVED") = (changes'[c].decision = "APPROVED")
<1>c. changes[c] \in ChangeRow
    BY DEF DeskTypeOK
<1>d. /\ Deciding(c) # {} => changes[c].status # "none"
      /\ ~changes[c].crossed => \A k \in Deciding(c) : /\ clerks[k].want = changes[c].decision
                                                       /\ \A j \in Deciding(c) : j = k
      /\ Deciding(c) = {} /\ changes[c].by = "decision" /\ ~changes[c].crossed
           => (changes[c].status = "APPROVED") = (changes[c].decision = "APPROVED")
    BY DEF DecisionInv, LastDecisionStands
\* A step that neither touches the change nor its decisions.
<1>1. ASSUME NEW k \in Clerk, OthersStay(k), k \notin Deciding(c), k \notin Deciding(c)',
             changes'[c] = changes[c]
      PROVE  Goal
    <2>1. Deciding(c)' = Deciding(c)
        BY <1>1 DEF Deciding, At, OthersStay
    <2>2. \A j \in Deciding(c) : clerks'[j] = clerks[j]
        BY <1>1 DEF Deciding, OthersStay
    <2> HIDE DEF Deciding
    <2> QED
        BY <1>1, <1>d, <2>1, <2>2
<1>2. ASSUME NEW k \in Clerk, ~At(k, "decide"), clerks'[k].pc # "decide", OthersStay(k),
             changes'[c] = changes[c]
      PROVE  Goal
    BY <1>1, <1>2 DEF Deciding, At
<1>3. ASSUME NEW k \in Clerk, CreateTicket(k) \/ CreateChange(k) PROVE Goal
    BY <1>2, <1>3, NumberClerk DEF CreateTicket, CreateChange, Ask, At
<1>4. ASSUME NEW k \in Clerk, NEW t \in Ticket,
             \/ InsertTicket(k, t) \/ ReadTicket(k, t) \/ UpdateTicket(k, t)
             \/ Comment(k, t) \/ DeleteTicket(k, t)
      PROVE  Goal
    <2>1. clerks'[k].pc # "decide" /\ OthersStay(k) /\ changes' = changes
        BY <1>4, ReadingClerk, DoneClerk, OffType
        DEF InsertTicket, ReadTicket, UpdateTicket, Comment, DeleteTicket
    <2>2. ~At(k, "decide")
        BY <1>4 DEF InsertTicket, ReadTicket, UpdateTicket, Comment, DeleteTicket, Ask, At
    <2> QED
        BY <1>2, <2>1, <2>2
<1>5. ASSUME NEW k \in Clerk, Fail(k) PROVE Goal
    <2>1. clerks'[k] = Off /\ OthersStay(k)
        BY <1>5, DoneClerk DEF Fail
    <2>2. CASE k \in Deciding(c)
        <3>1. changes'[c] = [changes[c] EXCEPT !.crossed = TRUE]
            BY <1>5, <2>2 DEF Fail
        <3>2. changes'[c].crossed /\ changes'[c].status = changes[c].status
            BY <1>c, <3>1 DEF ChangeRow
        <3> QED
            BY <1>d, <2>2, <3>2
    <2>3. CASE k \notin Deciding(c)
        <3>1. changes'[c] = changes[c]
            BY <1>5, <2>3 DEF Fail
        <3>2. k \notin Deciding(c)'
            BY <2>1, OffType DEF Deciding, At
        <3> QED
            BY <1>1, <2>1, <2>3, <3>1, <3>2
    <2> QED
        BY <2>2, <2>3
<1>6. ASSUME NEW k \in Clerk, NEW e \in Change, InsertChange(k, e) PROVE Goal
    <2>1. clerks'[k] = Off /\ OthersStay(k) /\ ~At(k, "decide")
        BY <1>6, DoneClerk DEF InsertChange, At
    <2>2. CASE e # c
        <3>1. changes'[c] = changes[c]
            BY <1>6, <2>2 DEF InsertChange, DeskTypeOK
        <3> QED
            BY <1>2, <2>1, <3>1, OffType
    <2>3. CASE e = c
        <3>1. Deciding(c) = {}
            BY <1>6, <1>d, <2>3 DEF InsertChange
        <3>2. Deciding(c)' = {}
            BY <2>1, <3>1, OffType DEF Deciding, At, OthersStay
        <3>3. changes'[c].by = "request"
            BY <1>6, <2>3 DEF InsertChange, DeskTypeOK, NoChange
        <3> QED
            BY <3>2, <3>3
    <2> QED
        BY <2>2, <2>3
<1>7. ASSUME NEW k \in Clerk, NEW e \in Change, ReadChange(k, e) PROVE Goal
    <2>1. clerks'[k].pc = "updateChange" /\ OthersStay(k) /\ ~At(k, "decide")
        BY <1>7, ChangeClerk DEF ReadChange, Ask, At
    <2> QED
        BY <1>2, <1>7, <2>1 DEF ReadChange
<1>8. ASSUME NEW k \in Clerk, NEW e \in Change, UpdateChange(k, e) PROVE Goal
    <2>1. clerks'[k] = Off /\ OthersStay(k) /\ ~At(k, "decide")
        BY <1>8, DoneClerk DEF UpdateChange, At
    <2>2. CASE e # c
        <3>1. changes'[c] = changes[c]
            BY <1>8, <2>2 DEF UpdateChange, DeskTypeOK
        <3> QED
            BY <1>2, <2>1, <3>1, OffType
    <2>3. CASE e = c
        <3>1. changes'[c] = [changes[c] EXCEPT !.status = clerks[k].want, !.by = "request"]
            BY <1>8, <2>3 DEF UpdateChange, DeskTypeOK
        <3>2. /\ changes'[c].by = "request" /\ changes'[c].crossed = changes[c].crossed
              /\ changes'[c].decision = changes[c].decision
              /\ changes'[c].status = clerks[k].want
            BY <1>c, <3>1 DEF ChangeRow
        <3>3. changes'[c].status # "none"
            BY <1>8, <3>2 DEF UpdateChange, WantInv, Wants, ChangeStatus
        <3>4. Deciding(c)' = Deciding(c)
            BY <2>1, OffType DEF Deciding, At, OthersStay
        <3>5. \A j \in Deciding(c) : clerks'[j] = clerks[j]
            BY <2>1 DEF Deciding, OthersStay
        <3> HIDE DEF Deciding
        <3> QED
            BY <1>d, <3>2, <3>3, <3>4, <3>5
    <2> QED
        BY <2>2, <2>3
<1>9. ASSUME NEW k \in Clerk, NEW e \in Change, RecordDecision(k, e) PROVE Goal
    <2>1. /\ clerks'[k].pc = "decide" /\ clerks'[k].on = {e} /\ OthersStay(k)
          /\ changes'[e].decision = clerks'[k].want
          /\ changes'[e].crossed = (Deciding(e) # {})
          /\ changes'[e].status = changes[e].status
          /\ \A f \in Change \ {e} : changes'[f] = changes[f]
        BY <1>9, ChangeClerk
    <2>2. ~At(k, "decide") /\ changes[e].status # "none"
        BY <1>9 DEF RecordDecision, Ask, At
    <2>3. CASE e # c
        BY <1>1, <2>1, <2>2, <2>3 DEF Deciding, At
    <2>4. CASE e = c
        <3>1. Deciding(c)' = Deciding(c) \cup {k}
            BY <2>1, <2>2, <2>4 DEF Deciding, At, OthersStay
        <3> HIDE DEF Deciding
        <3> QED
            BY <2>1, <2>2, <2>4, <3>1
    <2> QED
        BY <2>3, <2>4
<1>10. ASSUME NEW k \in Clerk, NEW e \in Change, ApplyDecision(k, e) PROVE Goal
    <2>1. clerks'[k] = Off /\ OthersStay(k)
        BY <1>10, DoneClerk DEF ApplyDecision
    <2>2. k \in Deciding(e) /\ k \notin Deciding(c)'
        BY <1>10, <2>1, OffType DEF ApplyDecision, Deciding, At
    <2>3. CASE e # c
        <3>1. changes'[c] = changes[c]
            BY <1>10, <2>3 DEF ApplyDecision, DeskTypeOK
        <3>2. k \notin Deciding(c)
            BY <2>2, <2>3 DEF Deciding, WantInv, Wants
        <3> QED
            BY <1>1, <2>1, <2>2, <3>1, <3>2
    <2>4. CASE e = c
        <3> DEFINE s == Verdict(clerks[k].want, changes[c].status)
        <3>1. changes'[c] = [changes[c] EXCEPT !.status = s, !.by = "decision"]
            BY <1>10, <2>4 DEF ApplyDecision, DeskTypeOK
        <3>2. /\ changes'[c].crossed = changes[c].crossed
              /\ changes'[c].decision = changes[c].decision
              /\ changes'[c].status = s
            BY <1>c, <3>1 DEF ChangeRow
        <3>3. s # "none" /\ (s = "APPROVED") = (clerks[k].want = "APPROVED")
            BY DEF Verdict
        <3>4. Deciding(c)' = Deciding(c) \ {k}
            BY <2>1, <2>2 DEF Deciding, At, OthersStay
        <3>5. \A j \in Deciding(c)' : clerks'[j] = clerks[j]
            BY <2>1, <3>4 DEF Deciding, OthersStay
        <3> HIDE DEF Deciding, s
        <3> QED
            BY <1>d, <2>2, <2>4, <3>2, <3>3, <3>4, <3>5
    <2> QED
        BY <2>3, <2>4
<1>11. ASSUME UNCHANGED deskVars PROVE Goal
    <2>1. Deciding(c)' = Deciding(c)
        BY <1>11 DEF deskVars, Deciding, At
    <2> HIDE DEF Deciding
    <2> QED
        BY <1>11, <1>d, <2>1 DEF deskVars
<1> HIDE DEF Goal
<1>12. Goal
    <2>1. ASSUME DeskNext PROVE Goal
        <3>1. PICK k \in Clerk :
                 \/ CreateTicket(k) \/ CreateChange(k) \/ Fail(k)
                 \/ \E t \in Ticket : \/ InsertTicket(k, t) \/ ReadTicket(k, t)
                                      \/ UpdateTicket(k, t) \/ Comment(k, t)
                                      \/ DeleteTicket(k, t)
                 \/ \E e \in Change : \/ InsertChange(k, e) \/ ReadChange(k, e)
                                      \/ UpdateChange(k, e) \/ RecordDecision(k, e)
                                      \/ ApplyDecision(k, e)
            BY <2>1 DEF DeskNext
        <3>2. CASE CreateTicket(k) \/ CreateChange(k) \/ Fail(k)
            BY <1>3, <1>5, <3>2
        <3>3. ASSUME NEW t \in Ticket,
                     \/ InsertTicket(k, t) \/ ReadTicket(k, t) \/ UpdateTicket(k, t)
                     \/ Comment(k, t) \/ DeleteTicket(k, t)
              PROVE  Goal
            BY <1>4, <3>3
        <3>4. ASSUME NEW e \in Change,
                     \/ InsertChange(k, e) \/ ReadChange(k, e) \/ UpdateChange(k, e)
                     \/ RecordDecision(k, e) \/ ApplyDecision(k, e)
              PROVE  Goal
            BY <1>6, <1>7, <1>8, <1>9, <1>10, <3>4
        <3> QED
            BY <3>1, <3>2, <3>3, <3>4
    <2> QED
        BY <1>11, <2>1
<1> QED
    BY <1>12 DEF Goal

\* For any number of clerks, tickets and changes: a resolved or closed ticket
\* has its stamps and its own number, it is reopened only by an update that asks
\* for it or by a comment begun while it was open (addComment:281), and a change
\* follows the last decision unless decisions crossed (decideApproval:137).
THEOREM DeskHonestAlways == DeskSpec => DeskHonest
<1> DEFINE IInv == /\ DeskTypeOK /\ WantInv
                   /\ SawInv /\ TicketsStamped
                   /\ NumberInv /\ NumbersUnique
                   /\ DecisionInv /\ LastDecisionStands
           Held == \A t \in Ticket :
              tickets[t].status \in {"RESOLVED", "CLOSED"} /\ tickets'[t].status = "IN_PROGRESS"
              => \E k \in Clerk :
                    /\ t \in clerks[k].on /\ clerks'[k].pc = "idle"
                    /\ \/ clerks[k].pc = "updateTicket" /\ clerks[k].want = "IN_PROGRESS"
                       \/ clerks[k].pc = "comment" /\ clerks[k].saw.status = "OPEN"
<1>1. DeskInit => IInv
    BY DeskTypeInit, StampInit, NumberInit, DecisionInit
<1>2. IInv /\ [DeskNext]_deskVars => IInv'
    BY DeskTypeNext, StampNext, NumberNext, DecisionNext
<1>3. IInv /\ [DeskNext]_deskVars => [Held]_deskVars
    BY ReopenStep DEF deskVars
<1>4. IInv => TicketsStamped /\ LastDecisionStands /\ NumbersUnique
    OBVIOUS
<1> HIDE DEF IInv
<1> QED
    BY <1>1, <1>2, <1>3, <1>4, PTL DEF DeskSpec, DeskHonest, ReopenedKnowingly

=============================================================================
