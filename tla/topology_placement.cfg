CONSTANTS
    n1 = n1
    p1 = p1
    p2 = p2
    c1 = c1
    c2 = c2
    c3 = c3
    d1 = d1
    s1 = s1
    k1 = k1
    r1 = r1
    None = None
    Namespaces = {n1}
    Pods = {p1, p2}
    Containers = {c1, c2, c3}
    Deployments = {d1}
    Services = {s1}
    Nodes = {k1}
    Routes = {r1}
    NsOf <- MCNsOf
    PodOf <- MCPodOf
    OwnerOf <- MCOwnerOf
    Clusters <- BothClusters
    Readings <- MayFail
    FreshFor = 1
    KeepFor = 1
    Faults = {"list", "post"}
    Slow = 1
    MaxLate = 1
    MaxChanges = 2
    MaxClock = 4
SPECIFICATION Spec
PROPERTIES PodsDrawnWhereListed
