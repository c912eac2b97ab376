SPECIFICATION Spec
CONSTANTS
  Filled <- Filling
  Wanted <- Arrangement
  Judged <- Ratify
  Tensors <- MCTensors
  Streamed <- MCStreamed
  Rooms <- MCRooms
  Offsets = {0, 3}
  Records <- MCRecords
  Shapes <- MCShapes
  Capacities = {8, 16}
CHECK_DEADLOCK FALSE
INVARIANTS HostIsArranged DeviceIsArranged RatifiedIsOneToOne
