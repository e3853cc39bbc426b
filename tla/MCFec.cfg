SPECIFICATION Spec
CONSTANTS
  gf_m = 4
  prim_poly <- MCPrim
  t = 2
  n_bch = 12
  k_bch = 4
  fec_len = 21
  k_ldpc = 15
  q_ldpc = 2
  DVBS2X_LDPC_PARALLEL = 3
  addrs <- MCAddrs
  xs = 3
  xp = 1
  p_period = 2
  EARLY_CHECK_ITERS = 2
  CONV_CHECK_PERIOD = 2
  Limits = {3, 4}
  Frames <- MCFrames
  MaxErased = 2
  MaxFlips = 3
INVARIANTS
  BoundedDistance
  FewErrorsCorrected
  ConvergedIsEncoded
  MessagesTrue
  ErasuresFilled
  ConvergenceNoticed
CHECK_DEADLOCK FALSE
