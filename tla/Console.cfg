SPECIFICATION ConsoleSpec

CONSTANTS
  P = P
  C = C
  m1 = m1
  m2 = m2
  openai = openai
  anthropic = anthropic
  Knobs = {P, C}
  Form <- MCForm
  Primary = P
  Models = {m1, m2}
  Provider <- MCProvider
  Client <- MCClient
  Default <- MCDefault
  Tabs = {t1, t2}
  Pages = {g1}
  Scripts = {s1}
  None = None
  Nobody = Nobody
  Blank = Blank
  MaxPuts = 2
  MaxOutages = 1
  Profiles = {p1, p2, p3}
  Requests = {r1, r2}

\* Requests end and the bounds are used up.
CHECK_DEADLOCK FALSE

INVARIANTS
  OverridesServed
  DefaultsHaveCause
PROPERTIES
  OnlyChosen
  BadgeCatchesUp
