SPECIFICATION Spec
CONSTANTS
  Starter = {c1, c2}
  Past = Past
  Nobody = Nobody
  MaxDeaths = 1
  Client = {u1, u2}
  Declaration = {d1}
  Layout = {l1}
  Talk = {t1, t2}
  TalkLimit = 1
  Preference = {p1}
  Nothing = Nothing
  Unbound = Unbound
  MaxEdits = 1
  MaxAsks = 2
  MaxEnds = 1
  Pid = {"host", "supervisor", "worker", "tool", "pty", "launcher", "foreign", "new"}
  MaxEvents = 2
  Root = {r1, r2}
  Agent = {a1}
  Key = {k1}
  Content = {x, y}
  NoLayout = NoLayout
  AnyWindow = AnyWindow
  MaxWindows = 2
  MaxReports = 2
  Page = 1
  MaxRestarts = 1
  Opener = {o1, o2}
  MaxViews = 2
  Editor = {1, 2}
  Slots = 2
  MaxTyped = 2
  MaxLate = 1
CONSTRAINTS MCFollowed MCDrafted
INVARIANTS OneServingUnlessLost ViewsAgreeInOrder KeepsWhatWasDone ReplacesItsOwn LettersArrive HeldUnlessRaced
PROPERTIES QuitLosesNothing
CHECK_DEADLOCK FALSE
