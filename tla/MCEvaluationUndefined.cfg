CONSTANTS
    obj = obj f = f g = g h1 = h1 h2 = h2 h3 = h3 text = text upper = upper
    r1 = r1 r2 = r2 m = m
    Undefined = Undefined Null = Null None = None
    Requests = {r1, r2}
    Objects <- MCObjects
    Things = {obj}
    Methods = {f, g, upper}
    Handles = {h1, h2, h3}
    Primitives = {text}
    Keys = {m}
    Root = f
    Chains <- MCChains
    PrimitiveMethods <- MCPrimitiveMethods
    Results <- MCResults
    Initially <- MCInitially
    Assignments <- MCAssignments
    MaxIds = 3
SPECIFICATION Spec
INVARIANT ChainsMeanLocally

CHECK_DEADLOCK FALSE
