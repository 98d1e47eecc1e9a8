CONSTANT Capacity = 6
SPECIFICATION AllocatorSpec
INVARIANT CountExact
PROPERTY LastNotReusedFirst
