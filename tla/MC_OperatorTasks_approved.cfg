CONSTANTS
  t1 = t1 t2 = t2 t3 = t3 x = x p = p c1 = c1 c2 = c2
  o1 = o1 o2 = o2 o3 = o3 root = root a1 = a1 a2 = a2 r1 = r1 d1 = d1 d2 = d2
  Tasks = {t1, x}
  Operators = {o1, o2, o3, root}
  Roots = {root}
  OperatorOf <- MCOperatorOfCross
  PriorityOf <- MCPriorityOf
  Agents = {a1, a2}
  AgentOf <- MCAgentOfCross
  Keys = {r1}
  KeyOf <- MCKeyOfCross
  NoKey = NoKey
  ChildrenOf <- MCChildrenOf
  Cross = {x}
  Deciders = {d1, d2}
  NoTask = NoTask
  MaxConcurrentTasks = 1
  MaxInputs = 2
SPECIFICATION Spec
INVARIANTS ResourceExclusive
CHECK_DEADLOCK FALSE
