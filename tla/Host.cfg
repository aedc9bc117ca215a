CONSTANTS
  q1 = q1 q2 = q2 k1 = k1 k2 = k2 r1 = r1 top = top sub = sub away = away a1 = a1 a2 = a2
  l1 = l1 l2 = l2 docker = docker tunnel = tunnel self = self t1 = t1
  Cores = {1, 2}
  Links = {k1, k2}
  Width = 16
  MaxCount = 2
  MaxPasses = 3
  MaxHistory = 2
  Rates = {250, 500}
  Invalid = 1
  Default = 2000
  RateCap = 2
  Pids = {1, 2}
  Own = 1
  Reused = {2}
  Lists = {l1, l2}
  MaxTime = 3
  NumDirs = 2
  Requests = {q1, q2}
  Old = Old Half = Half NoCopy = NoCopy
  Paths = {top, sub, away}
  Inside = {top, sub}
  Readers = {r1}
  NoPath = NoPath
  Units = {docker, tunnel, self}
  Managed = {docker, tunnel, self}
  Lifeline = {tunnel, self}
  Self = self
  Tunnel = tunnel
  Timers = {t1}
  Askers = {a1, a2}
  NoUnit = NoUnit
  Works = {"cpu", "net", "disk", "stats", "processes", "scripts", "files", "units"}
SPECIFICATION Spec
INVARIANTS UsageIsShare AmountsAreReal RateFollows ShareFits 
  RunsWhatWasSaved DeletedIsGone ServesWhatWasAsked LifelineStays
