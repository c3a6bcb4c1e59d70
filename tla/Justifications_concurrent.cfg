CONSTANTS
  v1 = v1
  v2 = v2
  e1 = e1
  e2 = e2
  c1 = c1
  c2 = c2
  Response = {x1}
  Version = {v1, v2}
  Email = {e1, e2}
  EmailOf <- Emails
  Contact = {c1, c2}
  Mailbox <- Mailboxes
  TeachersOf <- Teachers
  AssistantsOf <- Assistants
  NoOne = NoOne
  Request = {q1, q2}
  MaxFaults = 1
SPECIFICATION Spec
INVARIANTS
  TypeOK
  HistoryIsTheStory
  ReadIffOpened
  OwnStudent
  MailsTellTheDecision
PROPERTIES
  EveryoneIsTried
  ImplementsCase
