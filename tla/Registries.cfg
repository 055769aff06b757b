SPECIFICATION Spec
CONSTANTS
    Nothing = Nothing
    l1 = l1
    l2 = l2
    k1 = k1
    k2 = k2
PROPERTIES CloudFollowsRegistry ZkFollowsRegistry NacosIsServed ApplicationIsRouted McpIsPublished
CHECK_DEADLOCK FALSE
